---------------------------- MODULE Spec2Model ----------------------------
(***************************************************************************)
(* A model of the spring-driven cubic Bezier kernel (js/utils.js,          *)
(* js/bezier-math.js) and of the animation loops that drive it.            *)
(*                                                                         *)
(* Numbers.  A JavaScript number is modelled as a fixed-point integer: the *)
(* integer n stands for the real n / Scale.  Every product and quotient is *)
(* rounded toward zero to the next multiple of 1 / Scale, and a square     *)
(* root is rounded down.  The arithmetic never overflows in the model: the *)
(* helper operators below split their operands so that every intermediate  *)
(* value fits TLC's integers.  NaN and the infinities are the three        *)
(* integers below, which no number of the model reaches; the operators     *)
(* that can meet them (Quotient, Ratio, Times, ClampUnit) say so.          *)
(***************************************************************************)
EXTENDS Integers, Naturals, Sequences, FiniteSets, TLC

\* Resolution of the fixed-point numbers: n stands for n / Scale.
Scale == 1200

\* The largest integer of the model checker's arithmetic.
MaxInt == 1073741823 * 2 + 1

\* the double NaN: what 0 / 0 yields
NaN == 0 - MaxInt

\* the double Infinity: what k / 0 yields for k > 0
Infinity == MaxInt

\* the double -Infinity: what k / 0 yields for k < 0
NegInfinity == 1 - MaxInt

Finite(n) == n \notin { NaN, Infinity, NegInfinity }

Abs(n) == IF n < 0 THEN -n ELSE n

Sign(n) == IF n < 0 THEN -1 ELSE IF n > 0 THEN 1 ELSE 0

Min(a, b) == IF a <= b THEN a ELSE b

Max(a, b) == IF a >= b THEN a ELSE b

\* The number k (an integer of the source text) as a fixed-point number.
Num(k) == k * Scale

\* The fraction p / q of the source text (1/30, 0.33 = 33/100, ...).
Frac(p, q) == (p * Scale) \div q

(***************************************************************************)
(* <<quotient, remainder>> of x * y divided by c, for 0 <= x < c and       *)
(* 0 <= y, by doubling: no intermediate value exceeds 3 * c.               *)
(***************************************************************************)
RECURSIVE MulModLoop(_, _, _)
MulModLoop(x, y, c) ==
    IF y = 0 THEN <<0, 0>>
    ELSE LET h == MulModLoop(x, y \div 2, c)
             t == 2 * h[2] + (y % 2) * x
         IN  <<2 * h[1] + t \div c, t % c>>

\* <<quotient, remainder>> of a * b divided by c, for naturals a, b and c > 0.
MulDivMod(a, b, c) ==
    LET qa == a \div c
        ra == a % c
        qb == b \div c
        rb == b % c
        lo == Min(ra, rb)
        hi == Max(ra, rb)
        t  == IF lo = 0 \/ hi <= MaxInt \div lo
              THEN <<(lo * hi) \div c, (lo * hi) % c>>
              ELSE MulModLoop(hi, lo, c)
    IN  <<qa * b + ra * qb + t[1], t[2]>>

\* a * b / c rounded toward zero, for integers a, b and c # 0.
MulDiv(a, b, c) ==
    Sign(a) * Sign(b) * Sign(c) * MulDivMod(Abs(a), Abs(b), Abs(c))[1]

\* The product and the quotient of two fixed-point numbers (JavaScript * and /).
FMul(a, b) == MulDiv(a, b, Scale)

FDiv(a, b) == MulDiv(a, Scale, b)

(***************************************************************************)
(* floor(sqrt(x^2 + y^2)) for naturals x, y, by Newton's iteration from    *)
(* above; floor((x^2 + y^2) / m) is computed without forming the squares.  *)
(***************************************************************************)
SumSqDiv(x, y, m) ==
    LET p == MulDivMod(x, x, m)
        q == MulDivMod(y, y, m)
    IN  p[1] + q[1] + (p[2] + q[2]) \div m

RECURSIVE HypotNewton(_, _, _)
HypotNewton(x, y, m) ==
    LET n == (m + SumSqDiv(x, y, m)) \div 2
    IN  IF n >= m THEN m ELSE HypotNewton(x, y, n)

Hypot(x, y) == IF x = 0 /\ y = 0 THEN 0 ELSE HypotNewton(x, y, x + y)

(***************************************************************************)
(* Vector2D (js/utils.js): an immutable pair of numbers.                   *)
(***************************************************************************)
Vector2D(x, y) == [x |-> x, y |-> y]

zero == Vector2D(0, 0)

add(u, v) == Vector2D(u.x + v.x, u.y + v.y)

subtract(u, v) == Vector2D(u.x - v.x, u.y - v.y)

multiply(u, s) == Vector2D(FMul(u.x, s), FMul(u.y, s))

\* a divide whose result for a zero divisor is the receiver's value
divide_ZeroDivisorKeeps(u, s) ==
    IF s = 0 THEN u
    ELSE Vector2D(FDiv(u.x, s), FDiv(u.y, s))

divide(u, s) ==
    IF s = 0 THEN Vector2D(0, 0)
    ELSE Vector2D(FDiv(u.x, s), FDiv(u.y, s))

magnitude(u) == Hypot(Abs(u.x), Abs(u.y))

normalize(u) ==
    LET mag == magnitude(u)
    IN  IF mag = 0 THEN Vector2D(0, 0) ELSE divide(u, mag)

negate(u) == Vector2D(0 - u.x, 0 - u.y)

magnitudeSquared(u) == FMul(u.x, u.x) + FMul(u.y, u.y)

dot(u, v) == FMul(u.x, v.x) + FMul(u.y, v.y)

\* Math.cos and Math.sin of an angle of so many quarter turns
Cos(quarters) == Num(CASE quarters % 4 = 0 -> 1 [] quarters % 4 = 2 -> -1
                      [] OTHER -> 0)

Sin(quarters) == Num(CASE quarters % 4 = 1 -> 1 [] quarters % 4 = 3 -> -1
                      [] OTHER -> 0)

\* u.rotate(angle), for an angle of so many quarter turns
rotate(u, quarters) ==
    LET cos == Cos(quarters)
        sin == Sin(quarters)
    IN  Vector2D(FMul(u.x, cos) - FMul(u.y, sin),
                 FMul(u.x, sin) + FMul(u.y, cos))

perpendicular(u) == Vector2D(0 - u.y, u.x)

reflect(u, normal) ==
    LET n == normalize(normal)
    IN  subtract(u, multiply(n, 2 * dot(u, n)))

projectOnto(u, v) ==
    LET magSq == magnitudeSquared(v)
    IN  IF magSq = 0 THEN Vector2D(0, 0)
        ELSE multiply(v, FDiv(dot(u, v), magSq))

clampMagnitude(u, max) ==
    IF magnitude(u) > max THEN multiply(normalize(u), max)
    ELSE Vector2D(u.x, u.y)

\* Vector2D.lerp(a, b, t)
lerp(a, b, t) ==
    LET ct == Max(0, Min(Num(1), t))
    IN  Vector2D(a.x + FMul(b.x - a.x, ct), a.y + FMul(b.y - a.y, ct))


(***************************************************************************)
(* JavaScript's defaults for an absent property of a config object.  A     *)
(* config or params object is a record holding only the properties that    *)
(* the caller gave.                                                        *)
(***************************************************************************)
\* config.key ?? dflt
Nullish(config, key, dflt) ==
    IF key \in DOMAIN config THEN config[key] ELSE dflt

\* config.key || dflt, for a numeric property: zero is falsy too.
OrElse(config, key, dflt) ==
    IF key \in DOMAIN config /\ config[key] # 0 THEN config[key] ELSE dflt

(***************************************************************************)
(* SpringPhysics (js/bezier-math.js): a record of the object's fields.     *)
(***************************************************************************)
DefaultStiffness == 150

DefaultDamping == 12

DefaultMass == 1

DefaultMaxVelocity == 2000

DefaultMaxDisplacement == 500

\* The largest timestep one update integrates: 1/30 s.
MaxDt == Frac(1, 30)

SpringPhysics_new(config) ==
    LET position == IF "initialPosition" \in DOMAIN config
                    THEN config.initialPosition ELSE Vector2D(0, 0)
    IN  [stiffness       |-> Nullish(config, "stiffness", Num(DefaultStiffness)),
         damping         |-> Nullish(config, "damping", Num(DefaultDamping)),
         mass            |-> Nullish(config, "mass", Num(DefaultMass)),
         position        |-> position,
         velocity        |-> Vector2D(0, 0),
         target          |-> position,
         maxVelocity     |-> Nullish(config, "maxVelocity", Num(DefaultMaxVelocity)),
         maxDisplacement |-> Nullish(config, "maxDisplacement",
                                     Num(DefaultMaxDisplacement))]

SpringPhysics_setTarget(s, target) == [s EXCEPT !.target = target]

\* A variant of ClampDt that integrates whatever timestep it is given.
ClampDt_Unclamped(dt) == dt

\* dt = Math.min(dt, 1/30)
ClampDt(dt) == Min(dt, MaxDt)

\* A variant of Acceleration whose spring force is taken from the position
\* itself instead of the displacement from the target.
Acceleration_FromPosition(s) ==
    LET springForce  == multiply(s.position, -s.stiffness)
        dampingForce == multiply(s.velocity, -s.damping)
        totalForce   == add(springForce, dampingForce)
    IN  divide(totalForce, s.mass)

\* The acceleration of the first half of update, from the state before the step.
Acceleration(s) ==
    LET displacement == subtract(s.position, s.target)
        springForce  == multiply(displacement, -s.stiffness)
        dampingForce == multiply(s.velocity, -s.damping)
        totalForce   == add(springForce, dampingForce)
    IN  divide(totalForce, s.mass)

\* A variant of ClampVelocity that leaves the velocity as integrated.
ClampVelocity_Unclamped(v, maxVelocity) == v

\* if (velocity.magnitude() > maxVelocity) velocity = normalize * maxVelocity
ClampVelocity(v, maxVelocity) ==
    IF magnitude(v) > maxVelocity
    THEN multiply(normalize(v), maxVelocity)
    ELSE v

\* A variant of ClampDisplacement that forgets to re-anchor the clamped
\* displacement at the target.
ClampDisplacement_NotAnchored(position, target, maxDisplacement) ==
    LET currentDisp == subtract(position, target)
    IN  IF magnitude(currentDisp) > maxDisplacement
        THEN multiply(normalize(currentDisp), maxDisplacement)
        ELSE position

\* if (currentDisp.magnitude() > maxDisplacement) position = target + ...
ClampDisplacement(position, target, maxDisplacement) ==
    LET currentDisp == subtract(position, target)
    IN  IF magnitude(currentDisp) > maxDisplacement
        THEN add(target, multiply(normalize(currentDisp), maxDisplacement))
        ELSE position

\* The velocity after the step: integrated, then clamped.
StepVelocity(s, dt) ==
    ClampVelocity(add(s.velocity, multiply(Acceleration(s), dt)), s.maxVelocity)

\* A variant of StepPosition that integrates the velocity from before the step.
StepPosition_OldVelocity(s, velocity, dt) ==
    add(s.position, multiply(s.velocity, dt))

\* The position after integrating the new velocity, before the displacement clamp.
StepPosition(s, velocity, dt) == add(s.position, multiply(velocity, dt))

SpringPhysics_update(s, dt0) ==
    LET dt       == ClampDt(dt0)
        velocity == StepVelocity(s, dt)
        position == StepPosition(s, velocity, dt)
    IN  [s EXCEPT !.velocity = velocity,
                  !.position = ClampDisplacement(position, s.target,
                                                 s.maxDisplacement)]

\* A variant of reset that keeps the velocity.
SpringPhysics_reset_KeepsVelocity(s, position) ==
    [s EXCEPT !.position = position, !.target = position]

SpringPhysics_reset(s, position) ==
    [s EXCEPT !.position = position,
              !.velocity = Vector2D(0, 0),
              !.target   = position]

SpringPhysics_applyImpulse(s, impulse) ==
    [s EXCEPT !.velocity = add(s.velocity, divide(impulse, s.mass))]

\* The default thresholds of isSettled: 0.1 each.
SettleThreshold == Frac(1, 10)

SpringPhysics_isSettled(s, velThresh, dispThresh) ==
    /\ magnitude(s.velocity) < velThresh
    /\ magnitude(subtract(s.position, s.target)) < dispThresh

SpringPhysics_setParameters(s, params) ==
    [s EXCEPT !.stiffness = Nullish(params, "stiffness", s.stiffness),
              !.damping   = Nullish(params, "damping", s.damping),
              !.mass      = Nullish(params, "mass", s.mass)]

(***************************************************************************)
(* SpringPoint (js/bezier-math.js): a spring with a base position and an   *)
(* influence on the input offset.                                          *)
(***************************************************************************)
\* { ...a, ...b }: the properties of both, those of b winning.
Spread(a, b) ==
    [k \in DOMAIN a \cup DOMAIN b |-> IF k \in DOMAIN b THEN b[k] ELSE a[k]]

DefaultInfluence == 1

SpringPoint_new(x, y, config) ==
    [spring       |-> SpringPhysics_new(
                          Spread(config, [initialPosition |-> Vector2D(x, y)])),
     basePosition |-> Vector2D(x, y),
     influence    |-> Nullish(config, "influence", Num(DefaultInfluence))]

SpringPoint_position(p) == p.spring.position

\* A variant of setInputOffset that applies the raw offset, not scaled by the
\* influence.
SpringPoint_setInputOffset_Unscaled(p, offset) ==
    [p EXCEPT !.spring = SpringPhysics_setTarget(p.spring,
                                                 add(p.basePosition, offset))]

SpringPoint_setInputOffset(p, offset) ==
    LET scaled == multiply(offset, p.influence)
    IN  [p EXCEPT !.spring = SpringPhysics_setTarget(p.spring,
                                                     add(p.basePosition, scaled))]

SpringPoint_setTarget(p, position) ==
    [p EXCEPT !.spring = SpringPhysics_setTarget(p.spring, position)]

\* a variant of update that also makes the new position the target
SpringPoint_update_Retargets(p, dt) ==
    LET s == SpringPhysics_update(p.spring, dt)
    IN  [p EXCEPT !.spring = [s EXCEPT !.target = s.position]]

SpringPoint_update(p, dt) ==
    [p EXCEPT !.spring = SpringPhysics_update(p.spring, dt)]

\* A variant of reset that returns the spring to its target, not to the
\* basePosition.
SpringPoint_reset_ToTarget(p) ==
    [p EXCEPT !.spring = SpringPhysics_reset(p.spring, p.spring.target)]

SpringPoint_reset(p) ==
    [p EXCEPT !.spring = SpringPhysics_reset(p.spring, p.basePosition)]

\* A variant of setBasePosition that also moves the spring to the new base.
SpringPoint_setBasePosition_MovesSpring(p, x, y) ==
    [p EXCEPT !.basePosition = Vector2D(x, y),
              !.spring       = SpringPhysics_reset(p.spring, Vector2D(x, y))]

SpringPoint_setBasePosition(p, x, y) ==
    [p EXCEPT !.basePosition = Vector2D(x, y)]

\* A variant of setSpringParams that forwards the spring parameters and
\* drops the influence.
SpringPoint_setSpringParams_DropsInfluence(p, params) ==
    [p EXCEPT !.spring = SpringPhysics_setParameters(p.spring, params)]

SpringPoint_setSpringParams(p, params) ==
    [p EXCEPT !.spring    = SpringPhysics_setParameters(p.spring, params),
              !.influence = Nullish(params, "influence", p.influence)]


(***************************************************************************)
(* InteractiveBezier (js/bezier-math.js).  The constructor and update()    *)
(* read performance.now(); the reading is the operators' argument now, in  *)
(* milliseconds.                                                           *)
(***************************************************************************)
DefaultWidth == 800

DefaultHeight == 600

\* const margin = 100 of initControlPoints
Margin == 100

DefaultCurveResolution == 100

DefaultTangentCount == 10

DefaultTangentLength == 40

\* config.key || dflt, for a property holding an object
OrElseObject(config, key, dflt) ==
    IF key \in DOMAIN config THEN config[key] ELSE dflt

InteractiveBezier_springConfig(config) ==
    [stiffness |-> Nullish(config, "stiffness", Num(DefaultStiffness)),
     damping   |-> Nullish(config, "damping", Num(DefaultDamping)),
     mass      |-> Nullish(config, "mass", Num(DefaultMass))]

\* initControlPoints: the fields p0, p3, springP1 and springP2
InteractiveBezier_initControlPoints(config, width, height, springConfig) ==
    LET margin    == Num(Margin)
        p1Default == OrElseObject(config, "p1",
                         Vector2D(FMul(width, Frac(33, 100)),
                                  FMul(height, Frac(25, 100))))
        p2Default == OrElseObject(config, "p2",
                         Vector2D(FMul(width, Frac(66, 100)),
                                  FMul(height, Frac(75, 100))))
    IN  [p0 |-> OrElseObject(config, "p0",
                    Vector2D(margin, FDiv(height, Num(2)))),
         p3 |-> OrElseObject(config, "p3",
                    Vector2D(width - margin, FDiv(height, Num(2)))),
         springP1 |-> SpringPoint_new(p1Default.x, p1Default.y,
                          Spread(springConfig,
                              [influence |-> Nullish(config, "p1Influence",
                                                     Num(1))])),
         springP2 |-> SpringPoint_new(p2Default.x, p2Default.y,
                          Spread(springConfig,
                              [influence |-> Nullish(config, "p2Influence",
                                                     Frac(8, 10))]))]

InteractiveBezier_new(config, now) ==
    LET width        == OrElse(config, "width", Num(DefaultWidth))
        height       == OrElse(config, "height", Num(DefaultHeight))
        springConfig == InteractiveBezier_springConfig(config)
    IN  Spread(
          [width           |-> width,
           height          |-> height,
           springConfig    |-> springConfig,
           curveResolution |-> Nullish(config, "curveResolution",
                                       DefaultCurveResolution),
           tangentCount    |-> Nullish(config, "tangentCount",
                                       DefaultTangentCount),
           tangentLength   |-> Nullish(config, "tangentLength",
                                       Num(DefaultTangentLength)),
           lastUpdateTime  |-> now],
          InteractiveBezier_initControlPoints(config, width, height,
                                              springConfig))

\* The control points of the CubicBezier that getCurve builds.
InteractiveBezier_getCurve(b) ==
    [p0 |-> b.p0,
     p1 |-> SpringPoint_position(b.springP1),
     p2 |-> SpringPoint_position(b.springP2),
     p3 |-> b.p3]

InteractiveBezier_setInputOffset(b, offset) ==
    [b EXCEPT !.springP1 = SpringPoint_setInputOffset(b.springP1, offset),
              !.springP2 = SpringPoint_setInputOffset(b.springP2,
                               multiply(offset, -Frac(6, 10)))]

\* An argument that the caller left out (undefined) is the empty record.
Undefined == <<>>

IsGiven(v) == DOMAIN v # {}

InteractiveBezier_setTargets(b, p1Target, p2Target) ==
    [b EXCEPT !.springP1 = IF IsGiven(p1Target)
                           THEN SpringPoint_setTarget(b.springP1, p1Target)
                           ELSE b.springP1,
              !.springP2 = IF IsGiven(p2Target)
                           THEN SpringPoint_setTarget(b.springP2, p2Target)
                           ELSE b.springP2]

\* (now - lastUpdateTime) / 1000: milliseconds of wall clock to seconds
ElapsedSeconds(now, lastUpdateTime) == FDiv(now - lastUpdateTime, Num(1000))

\* A variant of update(dt) that steps springP1 and leaves springP2 stale.
InteractiveBezier_update_OnlyP1(b, dt) ==
    [b EXCEPT !.springP1 = SpringPoint_update(b.springP1, dt)]

\* update(dt) with dt given: both springs are stepped by the same dt.
InteractiveBezier_update(b, dt) ==
    [b EXCEPT !.springP1 = SpringPoint_update(b.springP1, dt),
              !.springP2 = SpringPoint_update(b.springP2, dt)]

\* A variant of update() without dt that never moves the baseline.
InteractiveBezier_updateNoDt_KeepsBaseline(b, now) ==
    InteractiveBezier_update(b, ElapsedSeconds(now, b.lastUpdateTime))

\* update() with dt undefined: dt is the wall-clock time since lastUpdateTime.
InteractiveBezier_updateNoDt(b, now) ==
    LET dt == ElapsedSeconds(now, b.lastUpdateTime)
    IN  InteractiveBezier_update([b EXCEPT !.lastUpdateTime = now], dt)

InteractiveBezier_reset(b) ==
    [b EXCEPT !.springP1 = SpringPoint_reset(b.springP1),
              !.springP2 = SpringPoint_reset(b.springP2)]

InteractiveBezier_setSpringParams(b, params) ==
    [b EXCEPT !.springP1 = SpringPoint_setSpringParams(b.springP1, params),
              !.springP2 = SpringPoint_setSpringParams(b.springP2, params)]

\* getRenderData: the control points and the spring velocities of the
\* snapshot.  Its other members (the sampled points, the tangent lines and
\* the energies) are functions of these.
InteractiveBezier_getRenderData(b) ==
    [controlPoints |-> InteractiveBezier_getCurve(b),
     springs       |-> [p1Velocity |-> b.springP1.spring.velocity,
                        p2Velocity |-> b.springP2.spring.velocity]]

\* width / this.width of resize, for two numbers: a division by 0 yields
\* NaN or an infinity.
Ratio(n, d) ==
    IF d # 0 THEN FDiv(n, d)
    ELSE IF n = 0 THEN NaN
    ELSE IF n > 0 THEN Infinity ELSE NegInfinity

\* x * scale of resize: NaN times anything and 0 times an infinity are NaN,
\* and any other product with an infinity is an infinity.
Times(x, scale) ==
    IF x = NaN \/ scale = NaN THEN NaN
    ELSE IF Finite(x) /\ Finite(scale) THEN FMul(x, scale)
    ELSE IF x = 0 \/ scale = 0 THEN NaN
    ELSE IF (x > 0) = (scale > 0) THEN Infinity ELSE NegInfinity

\* resize(width, height)
InteractiveBezier_resize(b, width, height) ==
    LET scaleX == Ratio(width, b.width)
        scaleY == Ratio(height, b.height)
    IN  [b EXCEPT !.width    = width,
                  !.height   = height,
                  !.p0       = Vector2D(Times(b.p0.x, scaleX), Times(b.p0.y, scaleY)),
                  !.p3       = Vector2D(Times(b.p3.x, scaleX), Times(b.p3.y, scaleY)),
                  !.springP1 = SpringPoint_setBasePosition(b.springP1,
                                   Times(b.springP1.basePosition.x, scaleX),
                                   Times(b.springP1.basePosition.y, scaleY)),
                  !.springP2 = SpringPoint_setBasePosition(b.springP2,
                                   Times(b.springP2.basePosition.x, scaleX),
                                   Times(b.springP2.basePosition.y, scaleY))]

InteractiveBezier_setEndpoint(b, index, position) ==
    IF index = 0 THEN [b EXCEPT !.p0 = position]
    ELSE IF index = 3 THEN [b EXCEPT !.p3 = position]
    ELSE b


(***************************************************************************)
(* The desktop page (js/bezier-math.js, from const App on).  A page is the *)
(* record [app, bezier]: the fields of App that its handlers read, and     *)
(* App.bezier.  app.pending counts the animate callbacks that              *)
(* requestAnimationFrame has queued for the next frame.  Handlers that     *)
(* touch only the DOM or the drawing options are left out.                 *)
(***************************************************************************)
Page(a, b) == [app |-> a, bezier |-> b]

\* v.distanceTo(u)
distanceTo(v, u) == Hypot(Abs(v.x - u.x), Abs(v.y - u.y))

\* draggedPoint: null
Null == "null"

\* init(), for a container of the given size at the clock reading now:
\* handleResize, initBezierSystem, App.lastTime and the first
\* requestAnimationFrame.
Desktop_init(size, now) ==
    LET w      == size.width
        h      == size.height
        margin == FMul(Min(w, h), Frac(1, 10))
    IN  Page([platform        |-> "desktop",
              width           |-> w,
              height          |-> h,
              mouse           |-> [x |-> 0, y |-> 0, prevX |-> 0, prevY |-> 0],
              isDragging      |-> FALSE,
              draggedPoint    |-> Null,
              interactionMode |-> "follow",
              isRunning       |-> TRUE,
              lastTime        |-> now,
              pending         |-> 1],
             InteractiveBezier_new(
                 [width |-> w, height |-> h,
                  stiffness |-> Num(150), damping |-> Num(12), mass |-> Num(1),
                  curveResolution |-> 100, tangentCount |-> 10,
                  tangentLength |-> Num(40),
                  p0 |-> Vector2D(margin, FDiv(h, Num(2))),
                  p3 |-> Vector2D(w - margin, FDiv(h, Num(2))),
                  p1 |-> Vector2D(FMul(w, Frac(33, 100)), FMul(h, Frac(3, 10))),
                  p2 |-> Vector2D(FMul(w, Frac(66, 100)), FMul(h, Frac(7, 10)))],
                 now))

\* handleResize, with App.bezier set
Desktop_handleResize(a, b, size) ==
    Page([a EXCEPT !.width = size.width, !.height = size.height],
         InteractiveBezier_resize(b, size.width, size.height))

Desktop_handleFollowMode(a, b) ==
    LET centerX == FDiv(a.width, Num(2))
        centerY == FDiv(a.height, Num(2))
        offsetX == FMul(a.mouse.x - centerX, Frac(1, 2))
        offsetY == FMul(a.mouse.y - centerY, Frac(1, 2))
    IN  Page(a, InteractiveBezier_setInputOffset(b, Vector2D(offsetX, offsetY)))

Desktop_handleDragMode(a, b) ==
    LET mousePos == Vector2D(a.mouse.x, a.mouse.y)
    IN  Page(a,
             CASE a.draggedPoint = "p1" ->
                    [b EXCEPT !.springP1 = SpringPoint_setTarget(@, mousePos)]
               [] a.draggedPoint = "p2" ->
                    [b EXCEPT !.springP2 = SpringPoint_setTarget(@, mousePos)]
               [] a.draggedPoint = "p0" -> [b EXCEPT !.p0 = mousePos]
               [] a.draggedPoint = "p3" -> [b EXCEPT !.p3 = mousePos]
               [] OTHER -> b)

\* handleMouseMove, for the position of the pointer within the canvas
Desktop_handleMouseMove(a, b, pos) ==
    LET moved == [a EXCEPT !.mouse = [x |-> pos.x, y |-> pos.y,
                                      prevX |-> a.mouse.x, prevY |-> a.mouse.y]]
    IN  IF moved.interactionMode = "follow"
        THEN Desktop_handleFollowMode(moved, b)
        ELSE IF /\ moved.interactionMode = "drag"
                /\ moved.isDragging
                /\ moved.draggedPoint # Null
             THEN Desktop_handleDragMode(moved, b)
             ELSE Page(moved, b)

\* const hitRadius = 20 of handleMouseDown
HitRadius == 20

\* The first of p0, p1, p2, p3 within the hit radius of the position, or Null.
Desktop_hitPoint(b, mousePos) ==
    LET curve == InteractiveBezier_getCurve(b)
        hit(name) == distanceTo(mousePos, curve[name]) < Num(HitRadius)
    IN  CASE hit("p0") -> "p0"
          [] ~hit("p0") /\ hit("p1") -> "p1"
          [] ~hit("p0") /\ ~hit("p1") /\ hit("p2") -> "p2"
          [] ~hit("p0") /\ ~hit("p1") /\ ~hit("p2") /\ hit("p3") -> "p3"
          [] OTHER -> Null

Desktop_handleMouseDown(a, b) ==
    LET point == Desktop_hitPoint(b, Vector2D(a.mouse.x, a.mouse.y))
    IN  IF a.interactionMode = "drag" /\ point # Null
        THEN Page([a EXCEPT !.isDragging = TRUE, !.draggedPoint = point], b)
        ELSE Page(a, b)

\* handleMouseUp and handleMouseLeave
Desktop_handleMouseUp(a, b) ==
    Page([a EXCEPT !.isDragging = FALSE, !.draggedPoint = Null], b)

Desktop_resetSimulation(a, b) ==
    Page(a, [b EXCEPT !.springP1 = SpringPoint_reset(@),
                      !.springP2 = SpringPoint_reset(@)])

Desktop_toggleInteractionMode(a, b) ==
    LET mode == IF a.interactionMode = "follow" THEN "drag" ELSE "follow"
    IN  Page([a EXCEPT !.interactionMode = mode],
             IF mode = "drag"
             THEN [b EXCEPT
                     !.springP1 = SpringPoint_setTarget(@, @.basePosition),
                     !.springP2 = SpringPoint_setTarget(@, @.basePosition)]
             ELSE b)

\* handleKeyDown for the keys r, d and space, outside an input element
Desktop_handleKeyDown(a, b, key, now) ==
    CASE key = "r" -> Desktop_resetSimulation(a, b)
      [] key = "d" -> Desktop_toggleInteractionMode(a, b)
      [] key = " " ->
           IF a.isRunning
           THEN Page([a EXCEPT !.isRunning = FALSE], b)
           ELSE Page([a EXCEPT !.isRunning = TRUE, !.lastTime = now,
                               !.pending = @ + 1], b)
      [] OTHER -> Page(a, b)

\* applyPreset and the stiffness, damping and mass sliders
Desktop_setSpringParams(a, b, params) ==
    Page(a, InteractiveBezier_setSpringParams(b, params))


(***************************************************************************)
(* The mobile page (js/mobile.js).  Besides the fields of App, app holds   *)
(* what the browser keeps for the page:                                    *)
(*   env        "none": no DeviceOrientationEvent; "plain": no             *)
(*              requestPermission function; "permission": there is one     *)
(*   listening  handleDeviceOrientation is a listener of deviceorientation *)
(*   overlay    the permission overlay, with its two buttons, is shown     *)
(*   timers     the calibrateGyroscope timeouts not yet fired              *)
(*   asking     the calls of requestPermission() not yet settled           *)
(*   pending    the animate callbacks queued for the next frame            *)
(* The touch gestures are not part of this model.                          *)
(***************************************************************************)
\* Utils.clamp
Utils_clamp(val, min, max) == Max(min, Min(max, val))

Mobile_calibrateGyroscope(a) ==
    [a EXCEPT !.gyro.calibration = [beta |-> a.gyro.beta, gamma |-> a.gyro.gamma]]

Mobile_enableGyroscope(a) ==
    [a EXCEPT !.gyro.enabled = TRUE,
              !.controlMode  = "gyro",
              !.listening    = TRUE,
              !.timers       = @ + 1]

\* a switch to touch mode that leaves the sensor enabled and the handler
\* registered
Mobile_switchToTouchMode_KeepsSensor(a) ==
    [a EXCEPT !.controlMode = "touch", !.overlay = FALSE]

Mobile_switchToTouchMode(a) ==
    [a EXCEPT !.gyro.enabled = FALSE,
              !.controlMode  = "touch",
              !.listening    = FALSE,
              !.overlay      = FALSE]

Mobile_checkGyroscopeSupport(a) ==
    CASE a.env = "permission" ->
           [a EXCEPT !.gyro.available = TRUE, !.overlay = TRUE]
      [] a.env = "plain" ->
           [Mobile_enableGyroscope([a EXCEPT !.gyro.available = TRUE])
               EXCEPT !.overlay = FALSE]
      [] OTHER ->
           [a EXCEPT !.gyro.available = FALSE, !.controlMode = "touch",
                     !.overlay = FALSE]

\* App.touch of the App object.  activeTouches is the function from the
\* identifiers it has as keys to its entries { point, x, y }.
NoTouch ==
    [active |-> FALSE, startX |-> 0, startY |-> 0, currentX |-> 0,
     currentY |-> 0, isDragging |-> FALSE, draggedPoint |-> Null,
     activeTouches |-> <<>>]

\* init(), for a window of the given size in the given browser at the clock
\* reading now.  fingers are the touches that the browser
\* tracks, in the order they came down, each [identifier, clientX, clientY,
\* onCanvas]: a touch that started outside the canvas is in e.touches of
\* every touch event, but its own events are not dispatched to the canvas.
Mobile_init(size, env, now) ==
    LET w      == size.width
        h      == size.height
        margin == FMul(Min(w, h), Frac(12, 100))
        a      == [platform    |-> "mobile",
                   width       |-> w,
                   height      |-> h,
                   gyro        |-> [available |-> FALSE, enabled |-> FALSE,
                                    alpha |-> 0, beta |-> 0, gamma |-> 0,
                                    calibration |-> [beta |-> 0, gamma |-> 0]],
                   controlMode |-> "gyro",
                   isRunning   |-> TRUE,
                   lastTime    |-> now,
                   pending     |-> 1,
                   env         |-> env,
                   listening   |-> FALSE,
                   overlay     |-> FALSE,
                   timers      |-> 0,
                   asking      |-> 0,
                   touch       |-> NoTouch,
                   fingers     |-> <<>>]
    IN  Page(Mobile_checkGyroscopeSupport(a),
             InteractiveBezier_new(
                 [width |-> w, height |-> h,
                  stiffness |-> Num(150), damping |-> Num(12), mass |-> Num(1),
                  curveResolution |-> 80, tangentCount |-> 8,
                  tangentLength |-> Num(35),
                  p0 |-> Vector2D(margin, FDiv(h, Num(2))),
                  p3 |-> Vector2D(w - margin, FDiv(h, Num(2))),
                  p1 |-> Vector2D(FMul(w, Frac(33, 100)), FMul(h, Frac(35, 100))),
                  p2 |-> Vector2D(FMul(w, Frac(66, 100)), FMul(h, Frac(65, 100)))],
                 now))

\* handleResize, with App.bezier set
Mobile_handleResize(a, b, size) ==
    Page([a EXCEPT !.width = size.width, !.height = size.height],
         InteractiveBezier_resize(b, size.width, size.height))

\* const sensitivity = 3 of handleDeviceOrientation
Sensitivity == 3

\* handleDeviceOrientation, for an event with the angles e, in degrees
Mobile_handleDeviceOrientation(a, b, e) ==
    IF ~a.gyro.enabled THEN Page(a, b)
    ELSE
      LET turned      == [a EXCEPT !.gyro.alpha = e.alpha,
                                   !.gyro.beta  = e.beta,
                                   !.gyro.gamma = e.gamma]
          betaOffset  == turned.gyro.beta - turned.gyro.calibration.beta
          gammaOffset == turned.gyro.gamma - turned.gyro.calibration.gamma
          maxOffset   == FMul(Min(a.width, a.height), Frac(3, 10))
          offsetX     == Utils_clamp(FMul(gammaOffset, Num(Sensitivity)),
                                     -maxOffset, maxOffset)
          offsetY     == Utils_clamp(FMul(betaOffset, Num(Sensitivity)),
                                     -maxOffset, maxOffset)
      IN  Page(turned,
               InteractiveBezier_setInputOffset(b, Vector2D(offsetX, offsetY)))

\* The click listener of resetBtn
Mobile_resetClick(a, b) ==
    Page(Mobile_calibrateGyroscope(a), InteractiveBezier_reset(b))

\* requestGyroscopePermission up to its await.  Without a
\* DeviceOrientationEvent the typeof test throws, and the catch switches to
\* touch mode.
Mobile_requestGyroscopePermission(a) ==
    CASE a.env = "permission" -> [a EXCEPT !.asking = @ + 1]
      [] a.env = "plain"      -> a
      [] OTHER                -> Mobile_switchToTouchMode(a)

\* requestGyroscopePermission from its await on: the promise was fulfilled
\* with "granted" or "denied", or rejected ("error")
Mobile_permissionSettled(a, outcome) ==
    LET settled == [a EXCEPT !.asking = @ - 1]
    IN  IF outcome = "granted"
        THEN [Mobile_enableGyroscope(settled) EXCEPT !.overlay = FALSE]
        ELSE Mobile_switchToTouchMode(settled)

\* The click listener of modeToggle
Mobile_modeToggleClick(a) ==
    IF a.controlMode = "gyro" THEN Mobile_switchToTouchMode(a)
    ELSE IF a.gyro.available
         THEN IF a.env = "permission"
              THEN Mobile_requestGyroscopePermission(a)
              ELSE Mobile_enableGyroscope(a)
         ELSE a

Mobile_applyPreset(a, b, preset) ==
    Page(a, InteractiveBezier_setSpringParams(b, preset))

\* Object.values(App.touch.activeTouches).map(t => t.point)
ControlledPoints(a) ==
    { a.touch.activeTouches[i].point : i \in DOMAIN a.touch.activeTouches }

\* App.touch.activeTouches[touchId] = entry
PutTouch(a, touchId, entry) ==
    [a EXCEPT !.touch.activeTouches =
        [i \in DOMAIN @ \cup {touchId} |-> IF i = touchId THEN entry ELSE @[i]]]

\* delete App.touch.activeTouches[touchId]
DeleteTouch(a, touchId) ==
    [a EXCEPT !.touch.activeTouches = [i \in DOMAIN @ \ {touchId} |-> @[i]]]

\* const hitRadius = 50 of handleTouchStart
TouchHitRadius == 50

\* A variant of the pass that gives the touch the first point it hits without
\* looking at the points that entries control, and p1 if it hits none.
Mobile_assignTouch_Uncontrolled(a, b, touch) ==
    LET touchPos == Vector2D(touch.clientX, touch.clientY)
        points   == << [name |-> "p1", pos |-> SpringPoint_position(b.springP1)],
                       [name |-> "p2", pos |-> SpringPoint_position(b.springP2)],
                       [name |-> "p0", pos |-> b.p0],
                       [name |-> "p3", pos |-> b.p3] >>
        hits     == { k \in 1..4 :
                        distanceTo(touchPos, points[k].pos) < Num(TouchHitRadius) }
        hit      == IF hits = {} THEN 1 ELSE CHOOSE k \in hits : \A j \in hits : k <= j
    IN  PutTouch(a, touch.identifier,
                 [point |-> points[hit].name,
                  x |-> touch.clientX, y |-> touch.clientY])

\* One pass of the loop of handleTouchStart over e.changedTouches: the touch
\* takes the first point of p1, p2, p0, p3 that it hits and that no entry
\* controls; failing that, the closer of the interior points that no entry
\* controls, p1 on a tie.
Mobile_assignTouch(a, b, touch) ==
    LET touchPos   == Vector2D(touch.clientX, touch.clientY)
        points     == << [name |-> "p1", pos |-> SpringPoint_position(b.springP1)],
                         [name |-> "p2", pos |-> SpringPoint_position(b.springP2)],
                         [name |-> "p0", pos |-> b.p0],
                         [name |-> "p3", pos |-> b.p3] >>
        controlled == ControlledPoints(a)
        hits       == { k \in 1..4 :
                          /\ distanceTo(touchPos, points[k].pos) < Num(TouchHitRadius)
                          /\ points[k].name \notin controlled }
        hit        == CHOOSE k \in hits : \A j \in hits : k <= j
        available  == { k \in 1..2 : points[k].name \notin controlled }
        closest    == CHOOSE k \in available : \A j \in available :
                          \/ distanceTo(touchPos, points[k].pos)
                               < distanceTo(touchPos, points[j].pos)
                          \/ /\ distanceTo(touchPos, points[k].pos)
                                  = distanceTo(touchPos, points[j].pos)
                             /\ k <= j
        entry(k)   == [point |-> points[k].name,
                       x |-> touch.clientX, y |-> touch.clientY]
    IN  IF hits # {} THEN PutTouch(a, touch.identifier, entry(hit))
        ELSE IF available # {} THEN PutTouch(a, touch.identifier, entry(closest))
        ELSE a

RECURSIVE Mobile_assignTouches(_, _, _)
Mobile_assignTouches(a, b, changedTouches) ==
    IF changedTouches = <<>> THEN a
    ELSE Mobile_assignTouches(Mobile_assignTouch(a, b, Head(changedTouches)),
                              b, Tail(changedTouches))

\* handleTouchStart, for the event e = [changedTouches, touches]
Mobile_handleTouchStart(a, b, e) ==
    LET assigned == Mobile_assignTouches(a, b, e.changedTouches)
        touch    == e.touches[1]
    IN  Page(IF Len(e.touches) > 0
             THEN [assigned EXCEPT
                     !.touch.active     = TRUE,
                     !.touch.startX     = touch.clientX,
                     !.touch.startY     = touch.clientY,
                     !.touch.currentX   = touch.clientX,
                     !.touch.currentY   = touch.clientY,
                     !.touch.isDragging = DOMAIN assigned.touch.activeTouches # {}]
             ELSE assigned,
             b)

\* One pass of the loop of handleTouchMove: a touch with an entry moves the
\* point of its entry, an interior point by the target of its spring.
Mobile_moveTouch(page, touch) ==
    LET a        == page.app
        b        == page.bezier
        touchPos == Vector2D(touch.clientX, touch.clientY)
        point    == a.touch.activeTouches[touch.identifier].point
    IN  IF touch.identifier \notin DOMAIN a.touch.activeTouches THEN page
        ELSE Page([a EXCEPT !.touch.activeTouches[touch.identifier].x = touch.clientX,
                            !.touch.activeTouches[touch.identifier].y = touch.clientY],
                  CASE point = "p1" ->
                         [b EXCEPT !.springP1 = SpringPoint_setTarget(@, touchPos)]
                    [] point = "p2" ->
                         [b EXCEPT !.springP2 = SpringPoint_setTarget(@, touchPos)]
                    [] point = "p0" -> [b EXCEPT !.p0 = touchPos]
                    [] point = "p3" -> [b EXCEPT !.p3 = touchPos])

RECURSIVE Mobile_moveTouches(_, _)
Mobile_moveTouches(page, changedTouches) ==
    IF changedTouches = <<>> THEN page
    ELSE Mobile_moveTouches(Mobile_moveTouch(page, Head(changedTouches)),
                            Tail(changedTouches))

\* handleTouchMove
Mobile_handleTouchMove(a, b, e) ==
    IF ~a.touch.active THEN Page(a, b)
    ELSE
      LET moved == Mobile_moveTouches(Page(a, b), e.changedTouches)
          touch == e.touches[1]
          seen  == IF Len(e.touches) > 0
                   THEN [moved.app EXCEPT !.touch.currentX = touch.clientX,
                                          !.touch.currentY = touch.clientY]
                   ELSE moved.app
      IN  IF DOMAIN seen.touch.activeTouches = {} /\ seen.controlMode = "touch"
          THEN Page(seen,
                    InteractiveBezier_setInputOffset(moved.bezier,
                        Vector2D(FMul(touch.clientX - FDiv(seen.width, Num(2)),
                                      Frac(4, 10)),
                                 FMul(touch.clientY - FDiv(seen.height, Num(2)),
                                      Frac(4, 10)))))
          ELSE Page(seen, moved.bezier)

RECURSIVE Mobile_deleteTouches(_, _)
Mobile_deleteTouches(a, changedTouches) ==
    IF changedTouches = <<>> THEN a
    ELSE Mobile_deleteTouches(DeleteTouch(a, Head(changedTouches).identifier),
                              Tail(changedTouches))

\* handleTouchEnd, the listener of touchend and of touchcancel
Mobile_handleTouchEnd(a, b, e) ==
    LET deleted == Mobile_deleteTouches(a, e.changedTouches)
    IN  IF Len(e.touches) = 0
        THEN Page([deleted EXCEPT !.touch.active       = FALSE,
                                  !.touch.isDragging   = FALSE,
                                  !.touch.draggedPoint = Null],
                  IF deleted.controlMode = "touch"
                  THEN InteractiveBezier_setInputOffset(b, Vector2D(0, 0))
                  ELSE b)
        ELSE Page([deleted EXCEPT !.touch.isDragging =
                                      DOMAIN deleted.touch.activeTouches # {}],
                  b)


(***************************************************************************)
(* animate, of both pages, and a frame of the browser: every animate       *)
(* callback queued runs, one after the other, with the timestamp of the    *)
(* frame.  A frame is the record [app, bezier, shots, ticks]: shots holds, *)
(* for each callback that drew, the getRenderData snapshots it took; ticks *)
(* the object before that callback's update and the dt it computed.        *)
(***************************************************************************)
\* The snapshots of one animate: render() takes one, and the desktop's
\* updateStats() another.
Snapshots(platform, b) ==
    IF platform = "desktop"
    THEN <<InteractiveBezier_getRenderData(b), InteractiveBezier_getRenderData(b)>>
    ELSE <<InteractiveBezier_getRenderData(b)>>

animate(f, currentTime) ==
    IF ~f.app.isRunning THEN f
    ELSE
      LET dt == ElapsedSeconds(currentTime, f.app.lastTime)
          b  == InteractiveBezier_update(f.bezier, dt)
      IN  [app    |-> [f.app EXCEPT !.lastTime = currentTime,
                                    !.pending  = @ + 1],
           bezier |-> b,
           shots  |-> Append(f.shots, Snapshots(f.app.platform, b)),
           ticks  |-> Append(f.ticks, [pre |-> f.bezier, dt |-> dt])]

RECURSIVE RunCallbacks(_, _, _)
RunCallbacks(n, f, currentTime) ==
    IF n = 0 THEN f
    ELSE RunCallbacks(n - 1, animate(f, currentTime), currentTime)

AnimationFrame(a, b, currentTime) ==
    RunCallbacks(a.pending,
                 [app |-> [a EXCEPT !.pending = 0], bezier |-> b,
                  shots |-> <<>>, ticks |-> <<>>],
                 currentTime)


(***************************************************************************)
(* State.                                                                  *)
(*   spring  a SpringPhysics object driven through its own methods         *)
(*   last    the operation that produced the current state, with its       *)
(*           arguments and the object as it was before the call            *)
(*   steps   the number of operations performed so far                     *)
(*   ib      an InteractiveBezier object                                   *)
(*   clock   the reading of performance.now(), in milliseconds             *)
(*   app     the fields of the App object of a page                        *)
(*   canvas  the render data of the frame drawn last                       *)
(*   curve   a CubicBezier object                                          *)
(*   heap    the Vector2D objects constructed so far, by address           *)
(* Each specification drives a part of the program and holds the variables *)
(* of the other parts at Unused.                                           *)
(***************************************************************************)
VARIABLES spring, last, steps, ib, clock, app, canvas, curve, heap

vars == <<spring, last, steps, ib, clock, app, canvas, curve, heap>>

Unused == "unused"

\* The variables that the specifications of a lone spring leave alone.
pageVars == <<ib, clock, app, canvas>>

PageUnused == ib = Unused /\ clock = Unused /\ app = Unused /\ canvas = Unused

\* The variables of the specifications of the value classes.
valueVars == <<curve, heap>>

ValuesUnused == curve = Unused /\ heap = Unused

\* The longest sequence of calls explored.
MaxSteps == 3

\* Coordinates, in units, that the callers of the model pass.
Point(x, y) == Vector2D(Num(x), Num(y))

\* new SpringPhysics(config): the configs explored.
SpringConfigs ==
    { <<>>,
      [initialPosition |-> Point(264, 150),
       stiffness |-> Num(300), damping |-> Num(8), mass |-> Frac(1, 2)],
      [initialPosition |-> Point(100, 0), mass |-> Num(3),
       maxVelocity |-> Num(50), maxDisplacement |-> Num(20)] }

\* Targets: the resting point, a nearby point, and a jump far past maxDisplacement.
Targets == { Point(0, 0), Point(100, 0), Point(-600, 800) }

Impulses == { Point(2500, 0), Point(-300, 400) }

\* Timesteps: 1/60 s, exactly 1/30 s, a frame gap of 1/10 s, and a clock that
\* ran backwards by 1/60 s.
Timesteps == { Frac(1, 60), Frac(1, 30), Frac(1, 10), -Frac(1, 60) }

\* setParameters arguments: two presets of the apps, and a mass slider at zero.
ParamSets ==
    { [stiffness |-> Num(500), damping |-> Num(25), mass |-> Frac(1, 2)],
      [stiffness |-> Num(100), damping |-> Num(15), mass |-> Num(3)],
      [mass |-> Num(0)] }

Init ==
    /\ \E config \in SpringConfigs : spring = SpringPhysics_new(config)
    /\ last = [op |-> "new"]
    /\ steps = 0
    /\ PageUnused
    /\ ValuesUnused

SetTarget ==
    /\ steps < MaxSteps
    /\ \E target \in Targets :
         /\ spring' = SpringPhysics_setTarget(spring, target)
         /\ last' = [op |-> "setTarget", pre |-> spring, arg |-> target]
    /\ steps' = steps + 1
    /\ UNCHANGED <<pageVars, valueVars>>

Update ==
    /\ steps < MaxSteps
    /\ \E dt \in Timesteps :
         /\ spring' = SpringPhysics_update(spring, dt)
         /\ last' = [op |-> "update", pre |-> spring, arg |-> dt]
    /\ steps' = steps + 1
    /\ UNCHANGED <<pageVars, valueVars>>

Reset ==
    /\ steps < MaxSteps
    /\ \E position \in Targets :
         /\ spring' = SpringPhysics_reset(spring, position)
         /\ last' = [op |-> "reset", pre |-> spring, arg |-> position]
    /\ steps' = steps + 1
    /\ UNCHANGED <<pageVars, valueVars>>

ApplyImpulse ==
    /\ steps < MaxSteps
    /\ \E impulse \in Impulses :
         /\ spring' = SpringPhysics_applyImpulse(spring, impulse)
         /\ last' = [op |-> "applyImpulse", pre |-> spring, arg |-> impulse]
    /\ steps' = steps + 1
    /\ UNCHANGED <<pageVars, valueVars>>

SetParameters ==
    /\ steps < MaxSteps
    /\ \E params \in ParamSets :
         /\ spring' = SpringPhysics_setParameters(spring, params)
         /\ last' = [op |-> "setParameters", pre |-> spring, arg |-> params]
    /\ steps' = steps + 1
    /\ UNCHANGED <<pageVars, valueVars>>

Next == SetTarget \/ Update \/ Reset \/ ApplyImpulse \/ SetParameters

Spec == Init /\ [][Next]_vars


(***************************************************************************)
(* Claims about SpringPhysics, checked under Spec.                         *)
(***************************************************************************)
\* The velocity that update integrated, before its velocity clamp.
UnclampedVelocity(s, dt) ==
    add(s.velocity, multiply(Acceleration(s), ClampDt(dt)))

\* The position that update integrated, before its displacement clamp.
UnclampedPosition(s, dt) ==
    StepPosition(s, StepVelocity(s, ClampDt(dt)), ClampDt(dt))

VelocityWithinMax(s) == magnitude(s.velocity) <= s.maxVelocity

DisplacementWithinMax(s) ==
    magnitude(subtract(s.position, s.target)) <= s.maxDisplacement

AtRest(s) == s.position = s.target /\ s.velocity = Vector2D(0, 0)

\* C1: after any single update(dt), whatever the state before it, the
\* magnitude of the velocity is at most maxVelocity.
C1_VelocityClampedAfterUpdate ==
    last.op = "update" => VelocityWithinMax(spring)

\* An update whose integrated velocity exceeded maxVelocity, so the clamp acted.
C1_Witness ==
    /\ last.op = "update"
    /\ magnitude(UnclampedVelocity(last.pre, last.arg)) > last.pre.maxVelocity

\* The rounding allowed when a displacement is rebuilt from a unit vector: one
\* unit of the last place of the unit vector, scaled by maxDisplacement.
RayTolerance(maxDisplacement) == maxDisplacement \div Scale + 2

\* d is c rescaled to the length len, up to rounding: same direction, from the
\* same anchor.
OnRay(d, c, len) ==
    LET mag == magnitude(c)
    IN  /\ Abs(d.x - MulDiv(c.x, len, mag)) <= RayTolerance(len)
        /\ Abs(d.y - MulDiv(c.y, len, mag)) <= RayTolerance(len)

\* C2: after any single update(dt) the distance from position to target is at
\* most maxDisplacement, and when the clamp applies the new position lies on
\* the ray from target through the unclamped position, at maxDisplacement.
C2_DisplacementClampedAfterUpdate ==
    last.op = "update" =>
        LET c == subtract(UnclampedPosition(last.pre, last.arg), spring.target)
        IN  /\ DisplacementWithinMax(spring)
            /\ magnitude(c) > spring.maxDisplacement =>
                   OnRay(subtract(spring.position, spring.target), c,
                         spring.maxDisplacement)

\* An update whose integrated position was farther than maxDisplacement from
\* a target other than the origin.
C2_Witness ==
    /\ last.op = "update"
    /\ spring.target # Vector2D(0, 0)
    /\ magnitude(subtract(UnclampedPosition(last.pre, last.arg), spring.target))
           > spring.maxDisplacement

\* C3 as stated: mass > 0 in every reachable state of a SpringPhysics.
C3_MassPositive == spring.mass > 0

\* C4 as stated: the velocity clamp holds in every reachable state.
C4_VelocityClampInvariant == VelocityWithinMax(spring)

\* C4 amended: update and reset establish the velocity bound, setTarget and
\* setParameters preserve it; only applyImpulse can break it, until the next
\* update or reset.
C4_VelocityClampPreserved ==
    [][ /\ last'.op \in {"update", "reset"} => VelocityWithinMax(spring')
        /\ (VelocityWithinMax(spring) /\ last'.op # "applyImpulse")
               => VelocityWithinMax(spring') ]_vars

\* A reset or an update that restored the bound an impulse had broken.
C4_Witness ==
    /\ last.op \in {"update", "reset"}
    /\ ~VelocityWithinMax(last.pre)
    /\ VelocityWithinMax(spring)

\* C5: a spring whose position equals its target and whose velocity is zero
\* is left exactly as it was by update, for every dt.
C5_RestIsFixedPoint ==
    (last.op = "update" /\ AtRest(last.pre)) => spring = last.pre

\* An update of a spring at rest away from the origin.
C5_Witness ==
    /\ last.op = "update"
    /\ AtRest(last.pre)
    /\ last.pre.position # Vector2D(0, 0)

\* C7: for every dt >= 1/30, update(dt) gives exactly the position and
\* velocity that update(1/30) gives from the same state.
C7_TimestepClamped ==
    (last.op = "update" /\ last.arg >= MaxDt) =>
        LET capped == SpringPhysics_update(last.pre, MaxDt)
        IN  /\ spring.position = capped.position
            /\ spring.velocity = capped.velocity

\* An update with dt above 1/30 that moved the spring.
C7_Witness ==
    /\ last.op = "update"
    /\ last.arg > MaxDt
    /\ spring.position # last.pre.position


(***************************************************************************)
(* A spring driven toward a fixed target by update(dt) at a fixed dt, as   *)
(* the animation loop drives it once per frame.  steps counts the ticks    *)
(* and stops counting at MaxTicks; last.arg holds the fixed dt, last.pre   *)
(* and last.pre2 the spring one and two ticks ago.                         *)
(***************************************************************************)
\* The tick count by which the spring is required to have settled.
MaxTicks == 300

\* The presets of the desktop app (App.presets), as constructor configs.
Presets ==
    [bouncy |-> [stiffness |-> Num(300), damping |-> Num(8),  mass |-> Frac(1, 2)],
     smooth |-> [stiffness |-> Num(150), damping |-> Num(12), mass |-> Num(1)],
     stiff  |-> [stiffness |-> Num(400), damping |-> Num(20), mass |-> Num(1)],
     loose  |-> [stiffness |-> Num(50),  damping |-> Num(5),  mass |-> Num(1)],
     heavy  |-> [stiffness |-> Num(100), damping |-> Num(15), mass |-> Num(3)],
     snappy |-> [stiffness |-> Num(500), damping |-> Num(25), mass |-> Frac(1, 2)]]

\* The runs explored: the default parameters at 60 frames a second toward a
\* near, a very near and a far target, every preset at 60 frames a second, and
\* the snappy preset at 30 frames a second.
SettleRuns ==
    { [config |-> <<>>, target |-> t, dt |-> Frac(1, 60)] :
          t \in { Point(100, 0), Point(3, -4), Point(-600, 800) } }
    \cup { [config |-> Presets[name], target |-> Point(100, 0), dt |-> Frac(1, 60)] :
          name \in DOMAIN Presets }
    \cup { [config |-> Presets.snappy, target |-> Point(100, 0), dt |-> Frac(1, 30)] }

Settled == SpringPhysics_isSettled(spring, SettleThreshold, SettleThreshold)

InitSettle ==
    /\ \E run \in SettleRuns :
         LET s == SpringPhysics_setTarget(SpringPhysics_new(run.config), run.target)
         IN  /\ spring = s
             /\ last = [op |-> "setTarget", arg |-> run.dt, pre |-> s, pre2 |-> s]
    /\ steps = 0
    /\ PageUnused
    /\ ValuesUnused

SettleTick ==
    /\ spring' = SpringPhysics_update(spring, last.arg)
    /\ last' = [op |-> "update", arg |-> last.arg, pre |-> spring, pre2 |-> last.pre]
    /\ steps' = Min(steps + 1, MaxTicks)
    /\ UNCHANGED <<pageVars, valueVars>>

NextSettle == SettleTick

SpecSettle == InitSettle /\ [][NextSettle]_vars

\* The spring is where it was two ticks ago, and is not settled: update is a
\* function of the spring and the fixed dt, so the run repeats these two states
\* forever.
UnsettledCycle ==
    /\ last.op = "update"
    /\ steps >= 2
    /\ spring = last.pre2
    /\ ~Settled

\* C6 as stated: with positive stiffness, damping and mass and a fixed dt the
\* spring becomes settled within a bounded number of ticks and remains settled.
\* In a finite run: no unsettled state recurs, and the spring is settled from
\* tick MaxTicks on.
C6_SettlesForGood ==
    /\ ~UnsettledCycle
    /\ steps = MaxTicks => Settled

\* The part of C6 that the code satisfies: at 60 frames a second, with the
\* default parameters and with every preset, the spring is settled from tick
\* MaxTicks on.
SettledFromMaxTicksAt60 ==
    (steps = MaxTicks /\ last.arg = Frac(1, 60)) => Settled

(***************************************************************************)
(* SpecBezier: an InteractiveBezier object driven through its methods.     *)
(* Only the constructor and update() read the clock; the time that passes  *)
(* between two calls is drawn where update() is called.  Besides the call, *)
(* its argument and the object before the call, last records               *)
(*   since  the clock at the dt-less update before this call, or at        *)
(*          construction if there was none                                 *)
(*   mark   the same after this call                                       *)
(*   noDt   the number of dt-less updates before this call                 *)
(***************************************************************************)
\* The longest sequence of calls on the InteractiveBezier object explored.
MaxCalls == 3

\* performance.now() at construction, in milliseconds.
StartTime == Num(1000)

\* new InteractiveBezier(config): the defaults, and a small canvas with the
\* control points and spring parameters given.
BezierConfigs ==
    { <<>>,
      [width |-> Num(400), height |-> Num(300),
       p0 |-> Point(40, 150), p3 |-> Point(360, 150),
       p1 |-> Point(140, 90), p2 |-> Point(260, 210),
       stiffness |-> Num(300), damping |-> Num(8), p2Influence |-> Frac(1, 2)] }

Offsets == { Point(120, -50), Point(-200, 150) }

TargetPairs ==
    { <<Point(300, 100), Undefined>>, <<Undefined, Point(500, 400)>> }

\* Milliseconds between a call and the dt-less update() that follows it:
\* a frame at 50 Hz, and a gap longer than 1/30 s.
Gaps == { Num(20), Num(40) }

\* setSpringParams arguments: a preset, and an influence alone.
BezierParamSets ==
    { [stiffness |-> Num(500), damping |-> Num(25), mass |-> Frac(1, 2)],
      [influence |-> Frac(1, 2)] }

Sizes == { [width |-> Num(400), height |-> Num(300)],
           [width |-> Num(1024), height |-> Num(768)] }

Endpoints == { [index |-> 0, position |-> Point(50, 50)],
               [index |-> 3, position |-> Point(700, 500)] }

SpringUnused == spring = Unused /\ app = Unused /\ canvas = Unused

InitBezier ==
    /\ clock = StartTime
    /\ \E config \in BezierConfigs : ib = InteractiveBezier_new(config, clock)
    /\ last = [op |-> "new", since |-> clock, mark |-> clock, noDt |-> 0]
    /\ steps = 0
    /\ SpringUnused
    /\ ValuesUnused

\* The record of a call that leaves the baseline of update() alone.
Called(op, arg) ==
    [op |-> op, pre |-> ib, arg |-> arg,
     since |-> last.mark, mark |-> last.mark, noDt |-> last.noDt]

BezierSetInputOffset ==
    /\ steps < MaxCalls
    /\ \E offset \in Offsets :
         /\ ib' = InteractiveBezier_setInputOffset(ib, offset)
         /\ last' = Called("setInputOffset", offset)
    /\ steps' = steps + 1
    /\ UNCHANGED <<clock, spring, app, canvas, valueVars>>

BezierSetTargets ==
    /\ steps < MaxCalls
    /\ \E pair \in TargetPairs :
         /\ ib' = InteractiveBezier_setTargets(ib, pair[1], pair[2])
         /\ last' = Called("setTargets", pair)
    /\ steps' = steps + 1
    /\ UNCHANGED <<clock, spring, app, canvas, valueVars>>

\* update(dt) after a frame of 1/60 s.
BezierUpdate ==
    /\ steps < MaxCalls
    /\ clock' = clock + Num(16)
    /\ ib' = InteractiveBezier_update(ib, Frac(1, 60))
    /\ last' = Called("update", Frac(1, 60))
    /\ steps' = steps + 1
    /\ UNCHANGED <<spring, app, canvas, valueVars>>

\* update() after gap milliseconds.
BezierUpdateNoDt ==
    /\ steps < MaxCalls
    /\ \E gap \in Gaps :
         /\ clock' = clock + gap
         /\ ib' = InteractiveBezier_updateNoDt(ib, clock')
         /\ last' = [op |-> "updateNoDt", pre |-> ib, arg |-> gap,
                     since |-> last.mark, mark |-> clock',
                     noDt |-> last.noDt]
    /\ steps' = steps + 1
    /\ UNCHANGED <<spring, app, canvas, valueVars>>

BezierReset ==
    /\ steps < MaxCalls
    /\ ib' = InteractiveBezier_reset(ib)
    /\ last' = Called("reset", Undefined)
    /\ steps' = steps + 1
    /\ UNCHANGED <<clock, spring, app, canvas, valueVars>>

BezierSetSpringParams ==
    /\ steps < MaxCalls
    /\ \E params \in BezierParamSets :
         /\ ib' = InteractiveBezier_setSpringParams(ib, params)
         /\ last' = Called("setSpringParams", params)
    /\ steps' = steps + 1
    /\ UNCHANGED <<clock, spring, app, canvas, valueVars>>

BezierResize ==
    /\ steps < MaxCalls
    /\ \E size \in Sizes :
         /\ ib' = InteractiveBezier_resize(ib, size.width, size.height)
         /\ last' = Called("resize", size)
    /\ steps' = steps + 1
    /\ UNCHANGED <<clock, spring, app, canvas, valueVars>>

BezierSetEndpoint ==
    /\ steps < MaxCalls
    /\ \E endpoint \in Endpoints :
         /\ ib' = InteractiveBezier_setEndpoint(ib, endpoint.index,
                                                endpoint.position)
         /\ last' = Called("setEndpoint", endpoint)
    /\ steps' = steps + 1
    /\ UNCHANGED <<clock, spring, app, canvas, valueVars>>

\* A caller moves the rest point of one interior point:
\* springP1.setBasePosition(x, y) or springP2.setBasePosition(x, y).
BezierSetBasePosition ==
    /\ steps < MaxCalls
    /\ \E point \in { "springP1", "springP2" } :
         LET base == Point(200, 120)
         IN  /\ ib' = [ib EXCEPT ![point] =
                           SpringPoint_setBasePosition(@, base.x, base.y)]
             /\ last' = Called("setBasePosition",
                               [point |-> point, position |-> base])
    /\ steps' = steps + 1
    /\ UNCHANGED <<clock, spring, app, canvas, valueVars>>

\* A caller kicks the spring of springP1: springP1.spring.applyImpulse(impulse).
BezierApplyImpulse ==
    /\ steps < MaxCalls
    /\ ib' = [ib EXCEPT !.springP1.spring =
                  SpringPhysics_applyImpulse(@, Point(-300, 400))]
    /\ last' = Called("applyImpulse", Point(-300, 400))
    /\ steps' = steps + 1
    /\ UNCHANGED <<clock, spring, app, canvas, valueVars>>

NextBezier ==
    \/ BezierSetBasePosition
    \/ BezierApplyImpulse
    \/ BezierSetInputOffset
    \/ BezierSetTargets
    \/ BezierUpdate
    \/ BezierUpdateNoDt
    \/ BezierReset
    \/ BezierSetSpringParams
    \/ BezierResize
    \/ BezierSetEndpoint

SpecBezier == InitBezier /\ [][NextBezier]_vars

(***************************************************************************)
(* Claims about InteractiveBezier, checked under SpecBezier.               *)
(***************************************************************************)
\* Both springs are what one SpringPhysics.update(dt) makes of them.
BothIntegrated(b, pre, dt) ==
    /\ b.springP1.spring = SpringPhysics_update(pre.springP1.spring, dt)
    /\ b.springP2.spring = SpringPhysics_update(pre.springP2.spring, dt)

\* Neither spring has moved or changed its velocity.
NeitherAdvanced(b, pre) ==
    /\ b.springP1.spring = pre.springP1.spring
    /\ b.springP2.spring = pre.springP2.spring

\* C8 as stated: the first update() without dt after construction only sets
\* lastUpdateTime to the clock and advances neither spring; each later one
\* integrates both springs with the wall-clock time since the previous
\* update() without dt.
C8_FirstCallOnlySetsBaseline ==
    last.op = "updateNoDt" =>
        /\ ib.lastUpdateTime = clock
        /\ IF last.noDt = 0
           THEN NeitherAdvanced(ib, last.pre)
           ELSE BothIntegrated(ib, last.pre, ElapsedSeconds(clock, last.since))

\* C8, amended: every update() without dt, the first one included, sets
\* lastUpdateTime to the clock and integrates both springs with the same dt:
\* the wall-clock time since the previous update() without dt, or since
\* construction for the first one (each spring clamps it to 1/30 s).  No
\* other method moves lastUpdateTime.
C8_EveryCallIntegrates ==
    IF last.op = "updateNoDt"
    THEN /\ ib.lastUpdateTime = clock
         /\ BothIntegrated(ib, last.pre, ElapsedSeconds(clock, last.since))
    ELSE ib.lastUpdateTime = last.mark

\* The first update() without dt, called some time after construction with
\* both springs away from their targets, has moved both of them.
C8_Witness ==
    /\ last.op = "updateNoDt"
    /\ last.noDt = 0
    /\ clock > last.since
    /\ ib.springP1.spring.position # last.pre.springP1.spring.position
    /\ ib.springP2.spring.position # last.pre.springP2.spring.position

\* A point whose coordinates are those of v multiplied by (sx, sy).
ScaledBy(v, sx, sy) == Vector2D(FMul(v.x, sx), FMul(v.y, sy))

\* C10 as stated: after resize(w2, h2) of an InteractiveBezier of size
\* (w1, h1), each of the four control points of getCurve() is the control
\* point before the call multiplied by (w2/w1, h2/h1).
C10_ResizeScalesControlPoints ==
    last.op = "resize" =>
        LET sx     == FDiv(last.arg.width, last.pre.width)
            sy     == FDiv(last.arg.height, last.pre.height)
            before == InteractiveBezier_getCurve(last.pre)
            after  == InteractiveBezier_getCurve(ib)
        IN  \A p \in {"p0", "p1", "p2", "p3"} :
                after[p] = ScaledBy(before[p], sx, sy)

\* What resize does scale: the two endpoints and the two base positions.
ResizeScalesEndpointsAndBases ==
    last.op = "resize" =>
        LET sx == FDiv(last.arg.width, last.pre.width)
            sy == FDiv(last.arg.height, last.pre.height)
        IN  /\ ib.p0 = ScaledBy(last.pre.p0, sx, sy)
            /\ ib.p3 = ScaledBy(last.pre.p3, sx, sy)
            /\ ib.springP1.basePosition =
                   ScaledBy(last.pre.springP1.basePosition, sx, sy)
            /\ ib.springP2.basePosition =
                   ScaledBy(last.pre.springP2.basePosition, sx, sy)
            /\ NeitherAdvanced(ib, last.pre)

(***************************************************************************)
(* SpecApp: a page, desktop or mobile, from the end of init() on.  Every   *)
(* action is one task of the browser's event loop, run to completion: a    *)
(* handler, a timer, or a frame with its animate callbacks.  Time passes   *)
(* between two frames.  Here last records the handler, its argument, the   *)
(* App fields, App.bezier and the canvas before it, and, for a frame, the  *)
(* ticks of its animate callbacks.                                         *)
(***************************************************************************)
\* The longest sequence of tasks explored.
MaxEvents == 4

\* The sizes of the canvas container (desktop) and of the window (mobile).
DesktopSizes == { [width |-> Num(1000), height |-> Num(600)] }

MobileSizes == { [width |-> Num(360), height |-> Num(640)] }

Browsers == { "none", "plain", "permission" }

\* Pointer positions: away from every control point, and on p1 as placed
\* by init().
MousePositions == { Point(700, 200), Point(335, 185) }

Keys == { "r", "d", " " }

\* The presets and slider inputs explored.
AppParamSets == { Presets.snappy, [stiffness |-> Num(50)] }

\* Milliseconds between two frames: 60 Hz, and a stall longer than 1/30 s.
FrameGaps == { Num(16), Num(50) }

\* deviceorientation events, in degrees
Orientations == { [alpha |-> Num(0), beta |-> Num(10), gamma |-> Num(-20)],
                  [alpha |-> Num(90), beta |-> Num(60), gamma |-> Num(45)] }

InitApp ==
    /\ clock = StartTime
    /\ \E page \in { Desktop_init(size, clock) : size \in DesktopSizes }
                   \cup { Mobile_init(size_env[1], size_env[2], clock) :
                            size_env \in MobileSizes \X Browsers } :
         /\ app = page.app
         /\ ib = page.bezier
    /\ canvas = <<>>
    /\ last = [op |-> "init", ticks |-> <<>>]
    /\ steps = 0
    /\ spring = Unused
    /\ ValuesUnused

\* A handler ran and left the page as given.
Handled(op, arg, page) ==
    /\ steps < MaxEvents
    /\ app' = page.app
    /\ ib' = page.bezier
    /\ last' = [op |-> op, arg |-> arg, pre |-> ib, preApp |-> app,
                preCanvas |-> canvas, ticks |-> <<>>]
    /\ steps' = steps + 1
    /\ UNCHANGED <<clock, canvas, spring, valueVars>>

\* A frame, gap milliseconds after the previous one.
Frame ==
    /\ steps < MaxEvents
    /\ app.pending > 0
    /\ \E gap \in FrameGaps :
         /\ clock' = clock + gap
         /\ \E f \in { AnimationFrame(app, ib, clock + gap) } :
                /\ app' = f.app
                /\ ib' = f.bezier
                /\ canvas' = IF f.shots = <<>> THEN canvas ELSE f.shots
                /\ last' = [op |-> "frame", arg |-> gap, pre |-> ib,
                            preApp |-> app, preCanvas |-> canvas,
                            ticks |-> f.ticks]
    /\ steps' = steps + 1
    /\ UNCHANGED <<spring, valueVars>>

DesktopResize ==
    /\ app.platform = "desktop"
    /\ \E size \in DesktopSizes \cup { [width |-> Num(640), height |-> Num(480)] } :
         Handled("handleResize", size, Desktop_handleResize(app, ib, size))

DesktopMouseMove ==
    /\ app.platform = "desktop"
    /\ \E pos \in MousePositions :
         Handled("handleMouseMove", pos, Desktop_handleMouseMove(app, ib, pos))

DesktopMouseDown ==
    /\ app.platform = "desktop"
    /\ Handled("handleMouseDown", Undefined, Desktop_handleMouseDown(app, ib))

DesktopMouseUp ==
    /\ app.platform = "desktop"
    /\ Handled("handleMouseUp", Undefined, Desktop_handleMouseUp(app, ib))

DesktopKeyDown ==
    /\ app.platform = "desktop"
    /\ \E key \in Keys :
         Handled("handleKeyDown", key, Desktop_handleKeyDown(app, ib, key, clock))

DesktopSetSpringParams ==
    /\ app.platform = "desktop"
    /\ \E params \in AppParamSets :
         Handled("setSpringParams", params,
                 Desktop_setSpringParams(app, ib, params))

MobileResize ==
    /\ app.platform = "mobile"
    /\ \E size \in MobileSizes \cup { [width |-> Num(640), height |-> Num(360)] } :
         Handled("handleResize", size, Mobile_handleResize(app, ib, size))

\* The device turns: the window gets a deviceorientation event, which the
\* handler sees while it is registered.
MobileDeviceOrientation ==
    /\ app.platform = "mobile"
    /\ \E e \in Orientations :
         Handled("handleDeviceOrientation", e,
                 IF app.listening
                 THEN Mobile_handleDeviceOrientation(app, ib, e)
                 ELSE Page(app, ib))

\* A timeout of enableGyroscope fires.
MobileCalibrateTimer ==
    /\ app.platform = "mobile"
    /\ app.timers > 0
    /\ Handled("calibrateGyroscope", Undefined,
               Page(Mobile_calibrateGyroscope([app EXCEPT !.timers = @ - 1]), ib))

MobileResetClick ==
    /\ app.platform = "mobile"
    /\ Handled("resetBtn", Undefined, Mobile_resetClick(app, ib))

MobileModeToggleClick ==
    /\ app.platform = "mobile"
    /\ Handled("modeToggle", Undefined, Page(Mobile_modeToggleClick(app), ib))

MobileEnableGyroClick ==
    /\ app.platform = "mobile"
    /\ app.overlay
    /\ Handled("enableGyroBtn", Undefined,
               Page(Mobile_requestGyroscopePermission(app), ib))

MobileSkipGyroClick ==
    /\ app.platform = "mobile"
    /\ app.overlay
    /\ Handled("skipGyroBtn", Undefined, Page(Mobile_switchToTouchMode(app), ib))

MobilePermissionSettled ==
    /\ app.platform = "mobile"
    /\ app.asking > 0
    /\ \E outcome \in { "granted", "denied", "error" } :
         Handled("requestGyroscopePermission", outcome,
                 Page(Mobile_permissionSettled(app, outcome), ib))

MobileApplyPreset ==
    /\ app.platform = "mobile"
    /\ Handled("applyPreset", Presets.bouncy,
               Mobile_applyPreset(app, ib, Presets.bouncy))

NextApp ==
    \/ Frame
    \/ DesktopResize
    \/ DesktopMouseMove
    \/ DesktopMouseDown
    \/ DesktopMouseUp
    \/ DesktopKeyDown
    \/ DesktopSetSpringParams
    \/ MobileResize
    \/ MobileDeviceOrientation
    \/ MobileCalibrateTimer
    \/ MobileResetClick
    \/ MobileModeToggleClick
    \/ MobileEnableGyroClick
    \/ MobileSkipGyroClick
    \/ MobilePermissionSettled
    \/ MobileApplyPreset

SpecApp == InitApp /\ [][NextApp]_vars

(***************************************************************************)
(* Claims about the animation tick, checked under SpecApp.                 *)
(***************************************************************************)
\* The snapshot of an object whose two springs are what one
\* SpringPhysics.update(dt) each makes of the springs of pre.
SnapshotAfterUpdate(pre, dt) ==
    LET s1 == SpringPhysics_update(pre.springP1.spring, dt)
        s2 == SpringPhysics_update(pre.springP2.spring, dt)
    IN  [controlPoints |-> [p0 |-> pre.p0, p1 |-> s1.position,
                            p2 |-> s2.position, p3 |-> pre.p3],
         springs       |-> [p1Velocity |-> s1.velocity,
                            p2Velocity |-> s2.velocity]]

\* The object that tick i + 1 of the frame found, or for the last tick the
\* object that the frame left.
AfterTick(i) ==
    IF i < Len(last.ticks) THEN last.ticks[i + 1].pre ELSE ib

\* In the frame that just ran, every snapshot of every animate callback shows
\* both springs stepped by that callback's dt, and nothing but the callbacks'
\* updates has touched the object from the start of the frame to its end.
TicksAreWhole ==
    /\ Len(last.ticks) > 0 =>
         /\ Len(canvas) = Len(last.ticks)
         /\ last.ticks[1].pre = last.pre
         /\ last.ticks[1].dt = ElapsedSeconds(clock, last.preApp.lastTime)
    /\ \A i \in 1..Len(last.ticks) :
         LET tick == last.ticks[i]
         IN  /\ Len(canvas[i]) >= 1
             /\ \A j \in 1..Len(canvas[i]) :
                    canvas[i][j] = SnapshotAfterUpdate(tick.pre, tick.dt)
             /\ InteractiveBezier_getRenderData(AfterTick(i)) =
                    SnapshotAfterUpdate(tick.pre, tick.dt)

\* C9: within every animation tick both springs are advanced with the same dt
\* before any getRenderData snapshot of the tick is taken, so every snapshot
\* shows the post-update state of both springs; input handlers run only
\* between ticks (no other step takes a snapshot or runs within a frame).
C9_SnapshotAfterBothUpdates ==
    IF last.op = "frame"
    THEN TicksAreWhole
    ELSE last.ticks = <<>> /\ (last.op # "init" => canvas = last.preCanvas)

\* A frame whose animate moved both springs and drew them.
C9_Witness ==
    /\ last.op = "frame"
    /\ Len(last.ticks) = 1
    /\ canvas[1][1].controlPoints.p1 # InteractiveBezier_getCurve(last.pre).p1
    /\ canvas[1][1].controlPoints.p2 # InteractiveBezier_getCurve(last.pre).p2

(***************************************************************************)
(* Claims about the methods of InteractiveBezier and SpringPoint, checked  *)
(* under SpecBezier.                                                       *)
(***************************************************************************)
\* The fields of a SpringPoint other than its basePosition: the spring, with
\* its position, velocity, target and parameters, and the influence.
LiveState(p) == [spring |-> p.spring, influence |-> p.influence]

\* C11: resize and setBasePosition leave the live spring state untouched: the
\* position, velocity and target of both interior springs and their stiffness,
\* damping, mass and influence are the same after the call as before; resize
\* changes only width, height, p0, p3 and the two basePositions, and
\* setBasePosition only the basePosition of its point.
C11_ResizeLeavesSpringsAlone ==
    /\ last.op \in { "resize", "setBasePosition" } =>
          /\ LiveState(ib.springP1) = LiveState(last.pre.springP1)
          /\ LiveState(ib.springP2) = LiveState(last.pre.springP2)
    /\ last.op = "resize" =>
          ib = [last.pre EXCEPT !.width  = ib.width,
                                !.height = ib.height,
                                !.p0     = ib.p0,
                                !.p3     = ib.p3,
                                !.springP1.basePosition = ib.springP1.basePosition,
                                !.springP2.basePosition = ib.springP2.basePosition]
    /\ last.op = "setBasePosition" =>
          ib = [last.pre EXCEPT ![last.arg.point].basePosition = last.arg.position]

\* A resize to another size of an object whose spring P1 is moving away from
\* its base position; the base positions moved, the spring did not.
C11_Witness ==
    /\ last.op = "resize"
    /\ last.arg.width # last.pre.width
    /\ ib.springP1.basePosition # last.pre.springP1.basePosition
    /\ ib.springP2.basePosition # last.pre.springP2.basePosition
    /\ ib.springP1.spring.velocity # Vector2D(0, 0)
    /\ ib.springP1.spring.position # ib.springP1.spring.target

\* The position and velocity of both springs are those before the call.
NotTeleported(b, pre) ==
    /\ b.springP1.spring.position = pre.springP1.spring.position
    /\ b.springP1.spring.velocity = pre.springP1.spring.velocity
    /\ b.springP2.spring.position = pre.springP2.spring.position
    /\ b.springP2.spring.velocity = pre.springP2.spring.velocity

\* C12: after setInputOffset(offset) the target of springP1 is
\* basePosition1 + offset * influence1 and the target of springP2 is
\* basePosition2 + (offset * -0.6) * influence2; the positions and velocities
\* of both springs are unchanged by the call.
C12_InputOffsetSetsTargets ==
    last.op = "setInputOffset" =>
        LET offset   == last.arg
            p1       == last.pre.springP1
            p2       == last.pre.springP2
            inverted == Vector2D(FMul(offset.x, -Frac(6, 10)),
                                 FMul(offset.y, -Frac(6, 10)))
        IN  /\ ib.springP1.spring.target =
                   Vector2D(p1.basePosition.x + FMul(offset.x, p1.influence),
                            p1.basePosition.y + FMul(offset.y, p1.influence))
            /\ ib.springP2.spring.target =
                   Vector2D(p2.basePosition.x + FMul(inverted.x, p2.influence),
                            p2.basePosition.y + FMul(inverted.y, p2.influence))
            /\ NotTeleported(ib, last.pre)

\* setInputOffset on an object whose influences are not 1 and whose springs
\* are away from their base positions: both targets moved.
C12_Witness ==
    /\ last.op = "setInputOffset"
    /\ last.pre.springP1.influence # Num(1)
    /\ last.pre.springP2.influence # Num(1)
    /\ ib.springP1.spring.position # ib.springP1.basePosition
    /\ ib.springP1.spring.target # last.pre.springP1.spring.target
    /\ ib.springP2.spring.target # last.pre.springP2.spring.target

\* The spring of the point rests on the point's basePosition.
RestsOnBase(p) ==
    /\ p.spring.position = p.basePosition
    /\ p.spring.target   = p.basePosition
    /\ p.spring.velocity = Vector2D(0, 0)

\* C13: after reset(), called in any state (also after resize, setTargets or
\* applyImpulse), each interior spring has its position and its target at the
\* point's current basePosition and velocity zero, within that one call; the
\* call changes nothing else.
C13_ResetSnapsToBase ==
    last.op = "reset" =>
        /\ RestsOnBase(ib.springP1)
        /\ RestsOnBase(ib.springP2)
        /\ ib.springP1.basePosition = last.pre.springP1.basePosition
        /\ ib.springP2.basePosition = last.pre.springP2.basePosition

\* reset() of an object whose base positions a resize or setBasePosition had
\* moved away from both springs, with spring P1 in motion after an impulse.
C13_Witness ==
    /\ last.op = "reset"
    /\ last.pre.springP1.spring.velocity # Vector2D(0, 0)
    /\ last.pre.springP1.spring.position # last.pre.springP1.basePosition
    /\ last.pre.springP2.spring.position # last.pre.springP2.basePosition

\* The value that the point holds for a key of setSpringParams.
ParamOf(p, key) == IF key = "influence" THEN p.influence ELSE p.spring[key]

ParamKeys == { "stiffness", "damping", "mass", "influence" }

\* C14: after setSpringParams(partial), for every key of stiffness, damping,
\* mass and influence present in partial both springP1 and springP2 hold the
\* given value, and for every absent key each point keeps the value it had.
C14_ParamsForwardedToBoth ==
    last.op = "setSpringParams" =>
        \A key \in ParamKeys :
            \A point \in { "springP1", "springP2" } :
                ParamOf(ib[point], key) =
                    IF key \in DOMAIN last.arg
                    THEN last.arg[key]
                    ELSE ParamOf(last.pre[point], key)

\* setSpringParams with an influence alone, on an object whose two points
\* had different influences and a stiffness other than the default.
C14_Witness ==
    /\ last.op = "setSpringParams"
    /\ DOMAIN last.arg = { "influence" }
    /\ last.pre.springP1.influence # last.pre.springP2.influence
    /\ ib.springP1.influence # last.pre.springP1.influence
    /\ ib.springP2.influence # last.pre.springP2.influence
    /\ ib.springP2.spring.stiffness # Num(DefaultStiffness)

(***************************************************************************)
(* CubicBezier (bezier-math.js).  A curve is the record of its four        *)
(* control points.  The parameter t is a number in units of 1/Scale, or    *)
(* one of the two values of a double that no such number stands for.       *)
(***************************************************************************)

\* i / segments of two integers, as JavaScript divides
Quotient(i, segments) ==
    IF segments # 0 THEN Frac(i, segments)
    ELSE IF i = 0 THEN NaN
    ELSE IF i > 0 THEN Infinity ELSE NegInfinity

\* Math.max(0, Math.min(1, t)) with t itself: no clamp at all
ClampUnit_Unclamped(t) == t

\* Math.max(0, Math.min(1, t)): Math.min and Math.max return NaN when an
\* argument is NaN
ClampUnit(t) ==
    IF t = NaN THEN NaN ELSE Max(0, Min(Num(1), t))

CubicBezier_new(p0, p1, p2, p3) == [p0 |-> p0, p1 |-> p1, p2 |-> p2, p3 |-> p3]

\* b0 * p0 + b1 * p1 + b2 * p2 + b3 * p3 for one coordinate.  The weights
\* are numbers between 0 and 1 that multiply coordinates of hundreds of
\* pixels, so they are kept in units of 1 / Scale^2.
Bernstein(t, c0, c1, c2, c3) ==
    LET fine == Scale * Scale
        mt  == Num(1) - t
        mt2 == mt * mt
        mt3 == MulDiv(mt2, mt, Scale)
        t2  == t * t
        t3  == MulDiv(t2, t, Scale)
        b0  == mt3
        b1  == MulDiv(3 * mt2, t, Scale)
        b2  == MulDiv(3 * mt, t2, Scale)
        b3  == t3
    IN  MulDiv(b0, c0, fine) + MulDiv(b1, c1, fine) + MulDiv(b2, c2, fine)
            + MulDiv(b3, c3, fine)

\* every product and sum with a NaN weight is NaN
CubicBezier_evaluate(c, t) ==
    LET u == ClampUnit(t)
    IN  IF u = NaN THEN Vector2D(NaN, NaN)
        ELSE Vector2D(Bernstein(u, c.p0.x, c.p1.x, c.p2.x, c.p3.x),
                      Bernstein(u, c.p0.y, c.p1.y, c.p2.y, c.p3.y))

\* for (i = 0; i <= segments; i++) points.push(this.evaluate(i / segments))
CubicBezier_sample(c, segments) ==
    [k \in 1..(segments + 1) |->
        CubicBezier_evaluate(c, Quotient(k - 1, segments))]

CubicBezier_withUpdates(c, updates) ==
    CubicBezier_new(OrElseObject(updates, "p0", c.p0),
                    OrElseObject(updates, "p1", c.p1),
                    OrElseObject(updates, "p2", c.p2),
                    OrElseObject(updates, "p3", c.p3))

(***************************************************************************)
(* SpecCurve: one CubicBezier and the calls of evaluate, sample and        *)
(* withUpdates on it.  evaluate and sample assign nothing; withUpdates     *)
(* returns a new curve, which the caller here goes on with.                *)
(***************************************************************************)

MaxCurveCalls == 2

MaxSegments == 4

\* the greatest denominator n of a parameter i / n passed to evaluate
MaxDenominator == 4

Curves ==
    { CubicBezier_new(Point(0, 100), Point(33, 25), Point(66, 75),
                      Point(100, 100)),
      CubicBezier_new(Point(100, 300), Point(264, 150), Point(528, 450),
                      Point(700, 300)) }

CurveUpdates ==
    { [p1 |-> Point(40, -20)],
      [p0 |-> Point(10, 10), p3 |-> Point(90, 10)] }

CurveUnused ==
    spring = Unused /\ ib = Unused /\ clock = Unused /\ app = Unused
        /\ canvas = Unused /\ heap = Unused

InitCurve ==
    /\ curve \in Curves
    /\ last = [op |-> "new", arg |-> Undefined, result |-> Undefined,
               pre |-> curve]
    /\ steps = 0
    /\ CurveUnused

CurveCalled(op, arg, result) ==
    /\ steps < MaxCurveCalls
    /\ steps' = steps + 1
    /\ last' = [op |-> op, arg |-> arg, result |-> result, pre |-> curve]
    /\ UNCHANGED <<spring, ib, clock, app, canvas, heap>>

\* evaluate(i / n), for parameters below, inside and above [0, 1]
CurveEvaluate ==
    \E n \in 1..MaxDenominator : \E i \in (0 - n)..(2 * n) :
        /\ CurveCalled("evaluate", [num |-> i, den |-> n],
                       CubicBezier_evaluate(curve, Quotient(i, n)))
        /\ UNCHANGED curve

CurveSample ==
    \E segments \in 0..MaxSegments :
        /\ CurveCalled("sample", segments, CubicBezier_sample(curve, segments))
        /\ UNCHANGED curve

CurveWithUpdates ==
    \E updates \in CurveUpdates :
        /\ CurveCalled("withUpdates", updates, Undefined)
        /\ curve' = CubicBezier_withUpdates(curve, updates)

NextCurve == CurveEvaluate \/ CurveSample \/ CurveWithUpdates

SpecCurve == InitCurve /\ [][NextCurve]_vars

(***************************************************************************)
(* Claims about CubicBezier, checked under SpecCurve.                      *)
(***************************************************************************)

\* the point of parameter index k (from 0) of sample(segments)
SamplePoint(c, k, segments) == CubicBezier_evaluate(c, Quotient(k, segments))

SampleOf(segments, points) ==
    /\ Len(points) = segments + 1
    /\ \A k \in 0..segments : points[k + 1] = SamplePoint(curve, k, segments)
    /\ \A k \in 0..(segments - 1) :
           Quotient(k, segments) < Quotient(k + 1, segments)
    /\ points[1] = CubicBezier_evaluate(curve, 0)
    /\ points[1] = curve.p0
    /\ points[segments + 1] = CubicBezier_evaluate(curve, Num(1))
    /\ points[segments + 1] = curve.p3
    /\ CubicBezier_sample(curve, segments) = points

\* C16: sample(n), for every integer n >= 0, returns exactly n + 1 points in
\* increasing parameter order, the first being evaluate(0), which is p0, and
\* the last evaluate(1), which is p3; calling it again returns the same
\* sequence.
C16_SampleCoversCurve ==
    last.op = "sample" => SampleOf(last.arg, last.result)

\* What holds of sample: the same for every n >= 1, while sample(0) returns
\* the one point evaluate(0 / 0), both coordinates of which are NaN.
SampleFromOneSegment ==
    last.op = "sample" =>
        /\ curve = last.pre
        /\ last.arg >= 1 => SampleOf(last.arg, last.result)
        /\ last.arg = 0 => last.result = << Vector2D(NaN, NaN) >>

\* The Bernstein combination of one coordinate at t = i / n, in whole
\* numbers: (n-i)^3 c0 + 3 (n-i)^2 i c1 + 3 (n-i) i^2 c2 + i^3 c3 over n^3.
ExactBernstein(i, n, c0, c1, c2, c3) ==
    LET j == n - i
    IN  (j * j * j * c0 + 3 * j * j * i * c1 + 3 * j * i * i * c2
            + i * i * i * c3) \div (n * n * n)

ExactPoint(c, i, n) ==
    Vector2D(ExactBernstein(i, n, c.p0.x, c.p1.x, c.p2.x, c.p3.x),
             ExactBernstein(i, n, c.p0.y, c.p1.y, c.p2.y, c.p3.y))

Within(u, v, tolerance) ==
    Abs(u.x - v.x) <= tolerance /\ Abs(u.y - v.y) <= tolerance

\* the greatest step of a coordinate from one control point to the next
Span(c) ==
    LET step(u, v) == Max(Abs(u.x - v.x), Abs(u.y - v.y))
    IN  Max(step(c.p0, c.p1), Max(step(c.p1, c.p2), step(c.p2, c.p3)))

\* A hundredth, and what the rounding of i / n to a multiple of 1 / Scale
\* moves the point by: the curve is no faster than 3 * Span(c), and the
\* parameter is short of i / n by ((i * Scale) % n) / (n * Scale).
Tolerance(c, i, n) ==
    Frac(1, 100) + (3 * Span(c) * ((i * Scale) % n)) \div (n * Scale)

ExampleCurve ==
    CubicBezier_new(Point(0, 100), Point(33, 25), Point(66, 75),
                    Point(100, 100))

\* evaluate(i / n) of the curve, as returned, clamps and combines
Evaluated(i, n, result) ==
    /\ i <= 0 => result = curve.p0
    /\ i >= n => result = curve.p3
    /\ (0 <= i /\ i <= n) =>
           Within(result, ExactPoint(curve, i, n), Tolerance(curve, i, n))

AtHalf == last.op = "evaluate" /\ 2 * last.arg.num = last.arg.den

\* C17 as stated: evaluate clamps and never extrapolates: t <= 0 gives p0,
\* t >= 1 gives p3, t in [0, 1] gives the Bernstein combination, and the
\* control points (0,100), (33,25), (66,75), (100,100) give (49.5, 68.75) at
\* t = 0.5.
C17_EvaluateWithStatedExample ==
    last.op = "evaluate" =>
        /\ Evaluated(last.arg.num, last.arg.den, last.result)
        /\ (AtHalf /\ curve = ExampleCurve) =>
               Within(last.result, Vector2D(Frac(495, 10), Frac(6875, 100)),
                      Tolerance(curve, 1, 2))

\* C17 amended: evaluate clamps and never extrapolates: t <= 0 gives p0,
\* t >= 1 gives p3, t in [0, 1] gives the Bernstein combination, and the
\* control points (0,100), (33,25), (66,75), (100,100) give (49.625, 62.5)
\* at t = 0.5.
C17_EvaluateClamps ==
    last.op = "evaluate" =>
        /\ curve = last.pre
        /\ Evaluated(last.arg.num, last.arg.den, last.result)
        /\ (AtHalf /\ curve = ExampleCurve) =>
               Within(last.result, Vector2D(Frac(49625, 1000), Frac(625, 10)),
                      Tolerance(curve, 1, 2))

\* evaluate(0.5) of the example curve has returned (49.625, 62.5)
C17_Witness ==
    /\ AtHalf
    /\ curve = ExampleCurve
    /\ last.result = Vector2D(Frac(49625, 1000), Frac(625, 10))

(***************************************************************************)
(* Object identity.  The operators above compute with values; here every   *)
(* Vector2D is an object at an address of the heap, and a field of the     *)
(* InteractiveBezier (of its SpringPoints and their SpringPhysics) holds   *)
(* an address:                                                             *)
(*   cells     the Vector2D objects constructed so far, address = index    *)
(*   refs      p0, p3, and for spring k: posk, velk, tgtk (spring.position,*)
(*             .velocity, .target) and basek (basePosition)                *)
(*   snapshot  the object getRenderData returned, when a caller keeps one  *)
(* The temporaries of a method (the operands of a chained expression) are  *)
(* objects nothing refers to once it returns; they get no address.         *)
(***************************************************************************)

\* a constructor that leaves the object open to assignment
Vector2D_construct_Unfrozen(v) == [x |-> v.x, y |-> v.y, frozen |-> FALSE]

\* this.x = x; this.y = y; Object.freeze(this)
Vector2D_construct(v) == [x |-> v.x, y |-> v.y, frozen |-> TRUE]

Deref(h, a) == Vector2D(h.cells[a].x, h.cells[a].y)

\* new Vector2D(...): the object gets the next address
Alloc(h, v) == [h EXCEPT !.cells = Append(@, Vector2D_construct(v))]

RECURSIVE AllocAll(_, _)
AllocAll(h, values) ==
    IF values = <<>> THEN h
    ELSE AllocAll(Alloc(h, Head(values)), Tail(values))

\* this.field = v, for an object v that exists
Alias(h, field, a) == [h EXCEPT !.refs[field] = a]

Fresh(h, field, v) == Alias(Alloc(h, v), field, Len(h.cells) + 1)

\* an assignment that writes the new value into the object the field holds
Store_InPlace(h, field, v) ==
    [h EXCEPT !.cells[h.refs[field]] = Vector2D_construct(v)]

\* this.field = new Vector2D(...), or the result of a Vector2D method, each
\* of which returns new Vector2D(...)
Store(h, field, v) == Fresh(h, field, v)

\* v.x = ...; v.y = ... from outside the class: a frozen object keeps its
\* properties (the assignment throws in strict code and is ignored in
\* sloppy code)
Assign(h, a, v) ==
    IF h.cells[a].frozen THEN h
    ELSE [h EXCEPT !.cells[a] = Vector2D_construct_Unfrozen(v)]

Fields ==
    {"p0", "p3", "pos1", "vel1", "tgt1", "base1", "pos2", "vel2", "tgt2",
     "base2"}

\* new SpringPoint(x, y, config): position and basePosition are two
\* objects, target is the position object
Heap_newSpringPoint(h, p, pos, vel, tgt, base) ==
    LET h1 == Fresh(h, pos, p.spring.position)
        h2 == Fresh(h1, vel, p.spring.velocity)
        h3 == Alias(h2, tgt, h2.refs[pos])
    IN  Fresh(h3, base, p.basePosition)

\* new InteractiveBezier(config), for a config without control points
Heap_new(b) ==
    LET h0 == [cells |-> <<>>, refs |-> [f \in Fields |-> 0],
               snapshot |-> Undefined]
        h1 == Fresh(Fresh(h0, "p0", b.p0), "p3", b.p3)
        h2 == Heap_newSpringPoint(h1, b.springP1, "pos1", "vel1", "tgt1",
                                  "base1")
    IN  Heap_newSpringPoint(h2, b.springP2, "pos2", "vel2", "tgt2", "base2")

\* setInputOffset: each spring's target becomes basePosition.add(scaled)
Heap_setInputOffset(h, b) ==
    Store(Store(h, "tgt1", b.springP1.spring.target),
          "tgt2", b.springP2.spring.target)

\* setTargets(p1Target, p2Target): a target given becomes the spring's
\* target object
Heap_setTargets(h, a1, a2) ==
    LET h1 == IF a1 # 0 THEN Alias(h, "tgt1", a1) ELSE h
    IN  IF a2 # 0 THEN Alias(h1, "tgt2", a2) ELSE h1

\* SpringPhysics.update: velocity and position are assigned the results of
\* add (and of multiply and add where a clamp applies)
Heap_updateSpring(h, s, pos, vel) ==
    Store(Store(h, vel, s.velocity), pos, s.position)

Heap_update(h, b) ==
    Heap_updateSpring(
        Heap_updateSpring(h, b.springP1.spring, "pos1", "vel1"),
        b.springP2.spring, "pos2", "vel2")

\* SpringPoint.reset: spring.reset(this.basePosition) makes the position
\* and the target the basePosition object, the velocity a new object
Heap_resetSpring(h, pos, vel, tgt, base) ==
    LET h1 == Alias(h, pos, h.refs[base])
        h2 == Store(h1, vel, Vector2D(0, 0))
    IN  Alias(h2, tgt, h.refs[base])

Heap_reset(h) ==
    Heap_resetSpring(Heap_resetSpring(h, "pos1", "vel1", "tgt1", "base1"),
                     "pos2", "vel2", "tgt2", "base2")

\* resize: p0, p3 and both basePositions are assigned new objects
Heap_resize(h, b) ==
    LET h1 == Store(Store(h, "p0", b.p0), "p3", b.p3)
    IN  Store(Store(h1, "base1", b.springP1.basePosition),
              "base2", b.springP2.basePosition)

\* setEndpoint(index, position): the caller's object becomes p0 or p3
Heap_setEndpoint(h, index, a) ==
    IF index = 0 THEN Alias(h, "p0", a)
    ELSE IF index = 3 THEN Alias(h, "p3", a) ELSE h

\* getRenderData: the record holds the objects that the fields hold now,
\* and the points that sample constructs
Heap_getRenderData(h, b) ==
    LET points == CubicBezier_sample(InteractiveBezier_getCurve(b),
                                     b.curveResolution)
        h1     == AllocAll(h, points)
    IN  [h1 EXCEPT !.snapshot =
            [p0 |-> h.refs.p0, p1 |-> h.refs.pos1, p2 |-> h.refs.pos2,
             p3 |-> h.refs.p3,
             p1Velocity |-> h.refs.vel1, p2Velocity |-> h.refs.vel2,
             points |-> [k \in 1..Len(points) |-> Len(h.cells) + k]]]

\* the values a caller reads through the record that getRenderData returned
SnapshotValues(h) ==
    [controlPoints |-> [p0 |-> Deref(h, h.snapshot.p0),
                        p1 |-> Deref(h, h.snapshot.p1),
                        p2 |-> Deref(h, h.snapshot.p2),
                        p3 |-> Deref(h, h.snapshot.p3)],
     springs |-> [p1Velocity |-> Deref(h, h.snapshot.p1Velocity),
                  p2Velocity |-> Deref(h, h.snapshot.p2Velocity)],
     points |-> [k \in 1..Len(h.snapshot.points) |->
                    Deref(h, h.snapshot.points[k])]]

\* receiver.op(argument) and Vector2D.lerp(receiver, argument, 0.25), for
\* the scalars and the angle explored
VectorOps ==
    {"add", "subtract", "multiply", "divide", "negate", "normalize", "rotate",
     "perpendicular", "reflect", "projectOnto", "clampMagnitude", "lerp"}

VectorResult(op, u, v) ==
    CASE op = "add"            -> add(u, v)
      [] op = "subtract"       -> subtract(u, v)
      [] op = "multiply"       -> multiply(u, Frac(-3, 5))
      [] op = "divide"         -> divide(u, Num(2))
      [] op = "negate"         -> negate(u)
      [] op = "normalize"      -> normalize(u)
      [] op = "rotate"         -> rotate(u, 1)
      [] op = "perpendicular"  -> perpendicular(u)
      [] op = "reflect"        -> reflect(u, v)
      [] op = "projectOnto"    -> projectOnto(u, v)
      [] op = "clampMagnitude" -> clampMagnitude(u, Num(100))
      [] op = "lerp"           -> lerp(u, v, Frac(1, 4))

(***************************************************************************)
(* SpecHeap: an InteractiveBezier with its objects, and a caller that      *)
(* calls its methods, keeps the record of one getRenderData, calls the     *)
(* Vector2D methods on objects it got from the InteractiveBezier, and      *)
(* tries to assign to one.  last.born holds the value each object was      *)
(* constructed with, last.snapshot the values of the record when it was    *)
(* returned.                                                               *)
(***************************************************************************)

MaxHeapCalls == 2

HeapConfigs ==
    { [curveResolution |-> 2],
      [curveResolution |-> 1, width |-> Num(400), height |-> Num(300)] }

HeapUnused ==
    spring = Unused /\ clock = Unused /\ app = Unused /\ canvas = Unused
        /\ curve = Unused

Born(h, born) ==
    [a \in 1..Len(h.cells) |-> IF a <= Len(born) THEN born[a] ELSE Deref(h, a)]

InitHeap ==
    /\ \E config \in HeapConfigs : ib = InteractiveBezier_new(config, StartTime)
    /\ heap = Heap_new(ib)
    /\ last = [op |-> "new", arg |-> Undefined, result |-> 0,
               born |-> Born(heap, <<>>), snapshot |-> Undefined,
               pre |-> ib]
    /\ steps = 0
    /\ HeapUnused

HeapDone(op, arg, result, b, h, snapshot) ==
    /\ ib' = b
    /\ heap' = h
    /\ last' = [op |-> op, arg |-> arg, result |-> result,
                born |-> Born(h, last.born), snapshot |-> snapshot,
                pre |-> ib]
    /\ UNCHANGED <<spring, clock, app, canvas, curve>>

HeapCalled(op, arg, result, b, h) ==
    /\ steps < MaxHeapCalls
    /\ steps' = steps + 1
    /\ HeapDone(op, arg, result, b, h, last.snapshot)

HeapSetInputOffset ==
    \E offset \in Offsets :
        \E b \in { InteractiveBezier_setInputOffset(ib, offset) } :
            HeapCalled("setInputOffset", offset, 0, b,
                       Heap_setInputOffset(heap, b))

\* the caller constructs the targets it passes
HeapSetTargets ==
    \E pair \in TargetPairs :
        LET h1 == IF IsGiven(pair[1]) THEN Alloc(heap, pair[1]) ELSE heap
            a1 == IF IsGiven(pair[1]) THEN Len(h1.cells) ELSE 0
            h2 == IF IsGiven(pair[2]) THEN Alloc(h1, pair[2]) ELSE h1
            a2 == IF IsGiven(pair[2]) THEN Len(h2.cells) ELSE 0
        IN  HeapCalled("setTargets", pair, 0,
                       InteractiveBezier_setTargets(ib, pair[1], pair[2]),
                       Heap_setTargets(h2, a1, a2))

HeapUpdate ==
    \E b \in { InteractiveBezier_update(ib, Frac(1, 60)) } :
        HeapCalled("update", Frac(1, 60), 0, b, Heap_update(heap, b))

HeapReset ==
    HeapCalled("reset", Undefined, 0, InteractiveBezier_reset(ib),
               Heap_reset(heap))

HeapResize ==
    \E size \in Sizes :
        \E b \in { InteractiveBezier_resize(ib, size.width, size.height) } :
            HeapCalled("resize", size, 0, b, Heap_resize(heap, b))

\* the caller constructs the position it passes
HeapSetEndpoint ==
    \E e \in Endpoints :
        LET h1 == Alloc(heap, e.position)
        IN  HeapCalled("setEndpoint", e, 0,
                       InteractiveBezier_setEndpoint(ib, e.index, e.position),
                       Heap_setEndpoint(h1, e.index, Len(h1.cells)))

\* the caller keeps the record of one getRenderData()
HeapGetRenderData ==
    /\ heap.snapshot = Undefined
    /\ UNCHANGED steps
    /\ \E h \in { Heap_getRenderData(heap, ib) } :
           HeapDone("getRenderData", Undefined, 0, ib, h, SnapshotValues(h))

\* a Vector2D method on objects that the caller got from the
\* InteractiveBezier; the caller keeps the result
HeapVectorOp ==
    \E op \in VectorOps : \E a \in {heap.refs.pos1} :
        LET b == heap.refs.p0
            h == Alloc(heap, VectorResult(op, Deref(heap, a), Deref(heap, b)))
        IN  HeapCalled(op, [receiver |-> a, argument |-> b], Len(h.cells),
                       ib, h)

\* the caller assigns to the coordinates of the position it got
HeapAssign ==
    \E a \in {heap.refs.pos1} :
        HeapCalled("assign", a, 0, ib, Assign(heap, a, Point(1, 1)))

NextHeap ==
    \/ HeapSetInputOffset
    \/ HeapSetTargets
    \/ HeapUpdate
    \/ HeapReset
    \/ HeapResize
    \/ HeapSetEndpoint
    \/ HeapGetRenderData
    \/ HeapVectorOp
    \/ HeapAssign

SpecHeap == InitHeap /\ [][NextHeap]_vars

\* every field holds an object of the value that the field has
HeapAgrees ==
    /\ Deref(heap, heap.refs.p0) = ib.p0
    /\ Deref(heap, heap.refs.p3) = ib.p3
    /\ Deref(heap, heap.refs.pos1) = ib.springP1.spring.position
    /\ Deref(heap, heap.refs.vel1) = ib.springP1.spring.velocity
    /\ Deref(heap, heap.refs.tgt1) = ib.springP1.spring.target
    /\ Deref(heap, heap.refs.base1) = ib.springP1.basePosition
    /\ Deref(heap, heap.refs.pos2) = ib.springP2.spring.position
    /\ Deref(heap, heap.refs.vel2) = ib.springP2.spring.velocity
    /\ Deref(heap, heap.refs.tgt2) = ib.springP2.spring.target
    /\ Deref(heap, heap.refs.base2) = ib.springP2.basePosition

(***************************************************************************)
(* Claims about object identity, checked under SpecHeap.                   *)
(***************************************************************************)

\* the record is what getRenderData computes from the state it is called in
SnapshotOf(b, values) ==
    /\ values.controlPoints = InteractiveBezier_getRenderData(b).controlPoints
    /\ values.springs = InteractiveBezier_getRenderData(b).springs
    /\ values.points = CubicBezier_sample(InteractiveBezier_getCurve(b),
                                          b.curveResolution)

\* C15: the record that getRenderData() returned is a value record, not a
\* view of live state: its control points, sampled points and spring
\* velocities keep the values they had when it was returned, whatever
\* update, setInputOffset, setTargets, reset, resize or setEndpoint is
\* called afterwards.
C15_SnapshotKeepsValues ==
    /\ IsGiven(heap.snapshot) <=> IsGiven(last.snapshot)
    /\ IsGiven(heap.snapshot) => SnapshotValues(heap) = last.snapshot
    /\ last.op = "getRenderData" => SnapshotOf(ib, last.snapshot)

\* an update after the record was returned has moved springP1 away from
\* the position and the velocity that the record shows
C15_Witness ==
    /\ IsGiven(heap.snapshot)
    /\ last.op = "update"
    /\ ib.springP1.spring.position # last.snapshot.controlPoints.p1
    /\ ib.springP1.spring.velocity # last.snapshot.springs.p1Velocity
    /\ SnapshotValues(heap) = last.snapshot

\* the method returned an object that did not exist before, holding the
\* value of the method for the receiver and the argument as they still are
ReturnedNew(op, receiver, argument, result) ==
    /\ result = Len(heap.cells)
    /\ result = Len(last.born)
    /\ receiver < result
    /\ argument < result
    /\ heap.cells[result].frozen
    /\ Deref(heap, result) =
           VectorResult(op, Deref(heap, receiver), Deref(heap, argument))

\* C18: a Vector2D never changes value after construction: each of add,
\* subtract, multiply, divide, negate, normalize, rotate, perpendicular,
\* reflect, projectOnto, clampMagnitude and lerp returns a new instance and
\* leaves the receiver and the argument as they were, and no operation of
\* the InteractiveBezier (update, reset, resize, setInputOffset, setTargets,
\* setEndpoint, getRenderData) alters a Vector2D that exists.
C18_VectorsNeverChange ==
    /\ Len(last.born) = Len(heap.cells)
    /\ \A a \in 1..Len(heap.cells) : Deref(heap, a) = last.born[a]
    /\ last.op \in VectorOps =>
           ReturnedNew(last.op, last.arg.receiver, last.arg.argument,
                       last.result)

\* after a setInputOffset has given springP1 a new target, a method whose
\* result differs from its receiver has returned, and the receiver holds
\* what it held
C18_Witness ==
    /\ last.op = "rotate"
    /\ heap.refs.tgt1 # heap.refs.pos1
    /\ Deref(heap, heap.refs.tgt1) # Deref(heap, heap.refs.pos1)
    /\ Deref(heap, last.result) # Deref(heap, last.arg.receiver)
    /\ Deref(heap, last.arg.receiver) = last.born[last.arg.receiver]

(***************************************************************************)
(* SpecDegenerate: the Vector2D methods that guard a zero divisor, applied *)
(* to zero and nonzero arguments, and a SpringPhysics whose mass is or     *)
(* becomes 0.                                                              *)
(***************************************************************************)

MaxDegenerateCalls == 3

VectorInputs == { Point(0, 0), Point(-120, 50) }

Divisors == { 0, Num(2) }

MassConfigs ==
    { [mass |-> 0, initialPosition |-> Point(100, 100)],
      [initialPosition |-> Point(100, 100)] }

DegenerateUnused ==
    ib = Unused /\ clock = Unused /\ app = Unused /\ canvas = Unused
        /\ curve = Unused /\ heap = Unused

InitDegenerate ==
    /\ \E config \in MassConfigs : spring = SpringPhysics_new(config)
    /\ last = [op |-> "new", arg |-> Undefined, result |-> Undefined,
               pre |-> spring]
    /\ steps = 0
    /\ DegenerateUnused

DegenerateCalled(op, arg, result, s) ==
    /\ steps < MaxDegenerateCalls
    /\ steps' = steps + 1
    /\ spring' = s
    /\ last' = [op |-> op, arg |-> arg, result |-> result, pre |-> spring]
    /\ UNCHANGED <<ib, clock, app, canvas, curve, heap>>

DegenerateDivide ==
    \E u \in VectorInputs, s \in Divisors :
        DegenerateCalled("divide", [u |-> u, s |-> s], divide(u, s), spring)

DegenerateNormalize ==
    \E u \in VectorInputs :
        DegenerateCalled("normalize", [u |-> u], normalize(u), spring)

DegenerateProjectOnto ==
    \E u \in VectorInputs, v \in VectorInputs :
        DegenerateCalled("projectOnto", [u |-> u, v |-> v], projectOnto(u, v),
                         spring)

DegenerateSetTarget ==
    \E target \in { Point(200, 50) } :
        DegenerateCalled("setTarget", target, Undefined,
                         SpringPhysics_setTarget(spring, target))

DegenerateUpdate ==
    \E s \in { SpringPhysics_update(spring, Frac(1, 60)) } :
        DegenerateCalled("update", Frac(1, 60), Undefined, s)

DegenerateApplyImpulse ==
    \E impulse \in { Point(-300, 400) } :
        DegenerateCalled("applyImpulse", impulse, Undefined,
                         SpringPhysics_applyImpulse(spring, impulse))

DegenerateSetParameters ==
    \E mass \in { 0, Num(1) } :
        DegenerateCalled("setParameters", [mass |-> mass], Undefined,
                         SpringPhysics_setParameters(spring, [mass |-> mass]))

NextDegenerate ==
    \/ DegenerateDivide
    \/ DegenerateNormalize
    \/ DegenerateProjectOnto
    \/ DegenerateSetTarget
    \/ DegenerateUpdate
    \/ DegenerateApplyImpulse
    \/ DegenerateSetParameters

SpecDegenerate == InitDegenerate /\ [][NextDegenerate]_vars

\* C19: divide(0), normalize() of the zero vector and projectOnto a vector
\* of length zero each return (0, 0); so a SpringPhysics of mass 0 computes
\* a zero acceleration in update, which leaves its velocity as it was, and
\* applyImpulse adds nothing to its velocity.
C19_ZeroDivisorsGiveZero ==
    /\ (last.op = "divide" /\ last.arg.s = 0) => last.result = Vector2D(0, 0)
    /\ (last.op = "normalize" /\ last.arg.u = Vector2D(0, 0)) =>
           last.result = Vector2D(0, 0)
    /\ (last.op = "projectOnto" /\ last.arg.v = Vector2D(0, 0)) =>
           last.result = Vector2D(0, 0)
    /\ (last.op = "update" /\ last.pre.mass = 0) =>
           /\ Acceleration(last.pre) = Vector2D(0, 0)
           /\ spring.velocity =
                  ClampVelocity(last.pre.velocity, last.pre.maxVelocity)
    /\ (last.op = "applyImpulse" /\ last.pre.mass = 0) => spring = last.pre

\* a spring of mass 0 away from its target has been updated: the spring
\* force is not zero, the velocity is as before
C19_Witness ==
    /\ last.op = "update"
    /\ last.pre.mass = 0
    /\ last.pre.position # last.pre.target
    /\ spring.velocity = last.pre.velocity
    /\ spring.stiffness > 0

(***************************************************************************)
(* Claims about the mobile page's sensor access, checked under SpecApp.    *)
(***************************************************************************)

InTouchMode ==
    /\ app.controlMode = "touch"
    /\ ~app.gyro.enabled
    /\ ~app.overlay
    /\ ~app.listening

\* the step just taken is a failure to get the sensor: init() found no
\* DeviceOrientationEvent, or requestPermission() was fulfilled with
\* something other than "granted", or rejected
SensorFailed ==
    \/ last.op = "init" /\ app.env = "none"
    \/ last.op = "requestGyroscopePermission" /\ last.arg # "granted"

\* the step just taken enabled the sensor
SensorEnabled ==
    \/ last.op = "requestGyroscopePermission" /\ last.arg = "granted"
    \/ last.op = "modeToggle" /\ app.env = "plain"

\* C20: a failure to get access to the orientation sensor ends in touch
\* mode: when DeviceOrientationEvent is absent, and when requestPermission
\* is fulfilled with anything other than "granted" or is rejected, the
\* page has controlMode "touch", gyro.enabled false and the permission
\* overlay hidden, and from then on, until a later step enables the sensor,
\* no deviceorientation event changes the InteractiveBezier.
C20_FailureEndsInTouchMode ==
    app.platform = "mobile" =>
        /\ SensorFailed => InTouchMode
        /\ app.env = "none" => InTouchMode
        /\ app.controlMode = "touch" => ~app.gyro.enabled /\ ~app.listening
        /\ last.op # "init" =>
               /\ (app.gyro.enabled /\ ~last.preApp.gyro.enabled) =>
                      SensorEnabled
               /\ (last.op = "handleDeviceOrientation"
                       /\ ~last.preApp.gyro.enabled) =>
                      ib = last.pre /\ app = last.preApp

\* with the sensor enabled by an earlier grant, a second request has been
\* denied or rejected
C20_Witness ==
    /\ app.platform = "mobile"
    /\ last.op = "requestGyroscopePermission"
    /\ last.arg # "granted"
    /\ last.preApp.gyro.enabled
    /\ last.preApp.listening
    /\ InTouchMode

(***************************************************************************)
(* Further claims about SpringPhysics.update, checked under Spec.          *)
(***************************************************************************)

\* (-stiffness * (position - target) - damping * velocity) / mass for one
\* coordinate; Vector2D.divide returns 0 for a mass of 0
AccelerationOf(s, position, velocity, target) ==
    IF s.mass = 0 THEN 0
    ELSE FDiv(FMul(0 - s.stiffness, position - target)
                  - FMul(s.damping, velocity), s.mass)

\* the state that the steps of update, in their stated order, lead to
SteppedInOrder(s, dt0) ==
    LET dt == Min(dt0, Frac(1, 30))
        a  == Vector2D(
                  AccelerationOf(s, s.position.x, s.velocity.x, s.target.x),
                  AccelerationOf(s, s.position.y, s.velocity.y, s.target.y))
        v1 == Vector2D(s.velocity.x + FMul(a.x, dt),
                       s.velocity.y + FMul(a.y, dt))
        v2 == ClampVelocity(v1, s.maxVelocity)
        p1 == Vector2D(s.position.x + FMul(v2.x, dt),
                       s.position.y + FMul(v2.y, dt))
        p2 == ClampDisplacement(p1, s.target, s.maxDisplacement)
    IN  [s EXCEPT !.velocity = v2, !.position = p2]

\* the spring of the example: default parameters, at rest at (0, 0), with
\* the target (100, 0)
ExampleSpring ==
    SpringPhysics_setTarget(SpringPhysics_new(<<>>), Point(100, 0))

\* C21: update(dt) takes the acceleration
\* (-stiffness * (position - target) - damping * velocity) / mass from the
\* state before the step, adds acceleration * dt to the velocity, clamps the
\* velocity to maxVelocity, adds the clamped velocity * dt to the position
\* and clamps the displacement.  For the default spring at rest at (0, 0)
\* with target (100, 0), update(1/60) gives velocity.x = 250 and
\* position.x = 250 / 60, which lies in (0, 5).
C21_UpdateStepsInOrder ==
    last.op = "update" =>
        /\ spring = SteppedInOrder(last.pre, last.arg)
        /\ (last.pre = ExampleSpring /\ last.arg = Frac(1, 60)) =>
               /\ Abs(spring.velocity.x - Num(250)) <= Num(1)
               /\ Abs(spring.position.x - Frac(250, 60)) <= Frac(1, 10)
               /\ spring.position.x > 0
               /\ spring.position.x < Num(5)
               /\ spring.velocity.x > 0
               /\ spring.velocity.y = 0
               /\ spring.position.y = 0

\* the example has run
C21_Witness ==
    /\ last.op = "update"
    /\ last.pre = ExampleSpring
    /\ last.arg = Frac(1, 60)
    /\ spring.velocity = Vector2D(Num(250), 0)
    /\ spring.position = Vector2D(Frac(250, 60), 0)

(***************************************************************************)
(* Further claims about InteractiveBezier, checked under SpecBezier.       *)
(***************************************************************************)

\* b with the positions and velocities of the two springs, and the
\* baseline of update(), taken from c
WithMotionOf(b, c) ==
    [b EXCEPT !.springP1.spring.position = c.springP1.spring.position,
              !.springP1.spring.velocity = c.springP1.spring.velocity,
              !.springP2.spring.position = c.springP2.spring.position,
              !.springP2.spring.velocity = c.springP2.spring.velocity,
              !.lastUpdateTime           = c.lastUpdateTime]

\* C22: update(dt) changes only the position and the velocity of the two
\* interior springs: p0, p3, both basePositions, both targets, all spring
\* parameters and influences, width, height and the sampling parameters
\* are after the call what they were before, and lastUpdateTime changes
\* only when dt is omitted.
C22_UpdateChangesOnlyMotion ==
    /\ last.op \in {"update", "updateNoDt"} => ib = WithMotionOf(last.pre, ib)
    /\ last.op = "update" => ib.lastUpdateTime = last.pre.lastUpdateTime
    /\ last.op = "updateNoDt" => ib.lastUpdateTime = clock

\* an update(dt) has moved both springs
C22_Witness ==
    /\ last.op = "update"
    /\ ib.springP1.spring.position # last.pre.springP1.spring.position
    /\ ib.springP2.spring.position # last.pre.springP2.spring.position
    /\ ib.springP1.spring.velocity # last.pre.springP1.spring.velocity
    /\ ib.springP1.spring.target = last.pre.springP1.spring.target

(***************************************************************************)
(* The timestep that update integrates with, checked under Spec.           *)
(***************************************************************************)

\* C23: the timestep used for integration is never negative: for every dt
\* passed to update, the step integrated lies in [0, 1/30].
C23_StepNeverNegative ==
    last.op = "update" =>
        /\ ClampDt(last.arg) >= 0
        /\ ClampDt(last.arg) <= Frac(1, 30)

\* What holds of the step: it is dt itself up to 1/30 and 1/30 beyond, so
\* a negative dt is integrated as it is, and the spring is where the steps
\* of update with that dt lead.
StepAtMostMaxDt ==
    last.op = "update" =>
        /\ ClampDt(last.arg) <= Frac(1, 30)
        /\ last.arg <= Frac(1, 30) => ClampDt(last.arg) = last.arg
        /\ spring = SteppedInOrder(last.pre, last.arg)

\* an update with a negative dt has moved a spring away from its target
SteppedBackwards ==
    /\ last.op = "update"
    /\ last.arg < 0
    /\ last.pre.velocity = Vector2D(0, 0)
    /\ last.pre.target.x > last.pre.position.x
    /\ spring.velocity.x < 0

(***************************************************************************)
(* The animation loop of the desktop page, checked under SpecApp.          *)
(***************************************************************************)

\* C24: in the desktop page at most one animation-frame callback for
\* animate is pending at any time, under any sequence of space-bar presses
\* and frames; so App.bezier.update runs at most once in a frame, and a
\* paused simulation never advances.
C24_OneCallbackPending ==
    app.platform = "desktop" =>
        /\ app.pending <= 1
        /\ last.op = "frame" =>
               /\ Len(last.ticks) <= 1
               /\ ~last.preApp.isRunning => ib = last.pre

\* What holds of the loop: a frame runs every callback that was pending,
\* each of which, while the simulation runs, updates once and requests
\* one more; a paused simulation does not advance.
FrameRunsEveryCallback ==
    (app.platform = "desktop" /\ last.op = "frame") =>
        /\ last.preApp.isRunning =>
               /\ Len(last.ticks) = last.preApp.pending
               /\ app.pending = last.preApp.pending
        /\ ~last.preApp.isRunning =>
               /\ last.ticks = <<>>
               /\ ib = last.pre
               /\ app.pending = 0

\* a pause and a resume between two frames have left two callbacks
\* pending, and the frame has run update twice
TwoUpdatesInOneFrame ==
    /\ app.platform = "desktop"
    /\ last.op = "frame"
    /\ Len(last.ticks) = 2
    /\ app.pending = 2

(***************************************************************************)
(* The touch screen of the mobile page: one action per touch event that    *)
(* the browser dispatches, with the sensor and the frames of SpecApp in    *)
(* between.  The page starts in a browser without the sensor (touch mode)  *)
(* or with it (gyro mode).                                                 *)
(***************************************************************************)
\* The most fingers on the screen at once.
MaxFingers == 3

\* Where a finger comes down: on p1 as placed at first, on p2, on p0, and away
\* from every point.
StartPositions ==
    { Point(120, 220), Point(240, 420), Point(40, 320), Point(300, 100) }

\* Where a finger moves to.
MovePositions == { Point(200, 300) }

InitTouch ==
    /\ clock = StartTime
    /\ \E page \in { Mobile_init(size_env[1], size_env[2], clock) :
                       size_env \in MobileSizes \X { "none", "plain" } } :
         /\ app = page.app
         /\ ib = page.bezier
    /\ canvas = <<>>
    /\ last = [op |-> "init"]
    /\ steps = 0
    /\ spring = Unused
    /\ ValuesUnused

\* The Touch object of a finger.
TouchOf(finger) ==
    [identifier |-> finger.identifier, clientX |-> finger.clientX,
     clientY |-> finger.clientY]

\* e.touches: every finger on the screen, whatever it started on.
TouchList(fingers) == [k \in 1..Len(fingers) |-> TouchOf(fingers[k])]

\* The identifier that the browser gives a new touch: one that no finger on
\* the screen has.
FreeIdentifier(fingers) ==
    CHOOSE i \in 0..Len(fingers) :
        /\ \A k \in 1..Len(fingers) : fingers[k].identifier # i
        /\ \A j \in 0..(i - 1) : \E k \in 1..Len(fingers) : fingers[k].identifier = j

Finger(fingers, position, onCanvas) ==
    [identifier |-> FreeIdentifier(fingers), clientX |-> position.x,
     clientY |-> position.y, onCanvas |-> onCanvas]

\* The fingers at the places of the set lifted.
Without(fingers, lifted) ==
    SelectSeq(fingers, LAMBDA f : \A k \in lifted : fingers[k] # f)

\* One finger comes down on the canvas: touchstart.
TouchStart ==
    /\ app.platform = "mobile"
    /\ Len(app.fingers) < MaxFingers
    /\ \E position \in StartPositions :
         LET finger == Finger(app.fingers, position, TRUE)
             down   == Append(app.fingers, finger)
         IN  Handled("handleTouchStart", <<finger>>,
                     Mobile_handleTouchStart(
                         [app EXCEPT !.fingers = down], ib,
                         [changedTouches |-> <<TouchOf(finger)>>,
                          touches |-> TouchList(down)]))

\* Two fingers come down on the canvas at once, both on p1: one touchstart
\* with two changed touches.
TouchStartBoth ==
    /\ app.platform = "mobile"
    /\ Len(app.fingers) + 2 <= MaxFingers
    /\ LET first  == Finger(app.fingers, Point(120, 220), TRUE)
           second == Finger(Append(app.fingers, first), Point(110, 230), TRUE)
           down   == app.fingers \o <<first, second>>
       IN  Handled("handleTouchStart", <<first, second>>,
                   Mobile_handleTouchStart(
                       [app EXCEPT !.fingers = down], ib,
                       [changedTouches |-> <<TouchOf(first), TouchOf(second)>>,
                        touches |-> TouchList(down)]))

\* A finger on the canvas moves: touchmove.
TouchMove ==
    /\ app.platform = "mobile"
    /\ \E k \in 1..Len(app.fingers), position \in MovePositions :
         /\ app.fingers[k].onCanvas
         /\ LET finger == [app.fingers[k] EXCEPT !.clientX = position.x,
                                                 !.clientY = position.y]
                down   == [app.fingers EXCEPT ![k] = finger]
            IN  Handled("handleTouchMove", <<finger>>,
                        Mobile_handleTouchMove(
                            [app EXCEPT !.fingers = down], ib,
                            [changedTouches |-> <<TouchOf(finger)>>,
                             touches |-> TouchList(down)]))

\* One finger, or every finger, on the canvas is lifted or cancelled:
\* touchend or touchcancel, which have the same listener.
TouchEnd ==
    /\ app.platform = "mobile"
    /\ LET onCanvas == { k \in 1..Len(app.fingers) : app.fingers[k].onCanvas }
       IN  \E lifted \in { {k} : k \in onCanvas } \cup ({ onCanvas } \ { {} }) :
             LET down == Without(app.fingers, lifted)
                 gone == SelectSeq(app.fingers,
                             LAMBDA f : \E k \in lifted : app.fingers[k] = f)
             IN  Handled("handleTouchEnd", gone,
                         Mobile_handleTouchEnd(
                             [app EXCEPT !.fingers = down], ib,
                             [changedTouches |-> TouchList(gone),
                              touches |-> TouchList(down)]))

\* A finger comes down on the page outside the canvas, on the panel or a
\* button: no listener of the canvas runs.
TouchElsewhere ==
    /\ app.platform = "mobile"
    /\ Len(app.fingers) < MaxFingers
    /\ \A k \in 1..Len(app.fingers) : app.fingers[k].onCanvas
    /\ Handled("elsewhere", "down",
               Page([app EXCEPT !.fingers =
                        Append(@, Finger(@, Point(20, 20), FALSE))], ib))

\* The finger outside the canvas is lifted.
LiftElsewhere ==
    /\ app.platform = "mobile"
    /\ \E k \in 1..Len(app.fingers) :
         /\ ~app.fingers[k].onCanvas
         /\ Handled("elsewhere", "up",
                    Page([app EXCEPT !.fingers = Without(@, {k})], ib))

\* A reading of the sensor arrives, with the phone tilted.
TouchOrientation ==
    /\ app.platform = "mobile"
    /\ \E e \in { [alpha |-> Num(0), beta |-> Num(10), gamma |-> Num(-20)] } :
         Handled("handleDeviceOrientation", e,
                 IF app.listening
                 THEN Mobile_handleDeviceOrientation(app, ib, e)
                 ELSE Page(app, ib))

\* A frame, 16 ms after the previous one.
TouchFrame ==
    /\ steps < MaxEvents
    /\ app.pending > 0
    /\ clock' = clock + Num(16)
    /\ \E f \in { AnimationFrame(app, ib, clock + Num(16)) } :
           /\ app' = f.app
           /\ ib' = f.bezier
           /\ canvas' = IF f.shots = <<>> THEN canvas ELSE f.shots
           /\ last' = [op |-> "frame", arg |-> Num(16), pre |-> ib,
                       preApp |-> app, preCanvas |-> canvas,
                       ticks |-> f.ticks]
    /\ steps' = steps + 1
    /\ UNCHANGED <<spring, valueVars>>

NextTouch ==
    \/ TouchStart
    \/ TouchStartBoth
    \/ TouchMove
    \/ TouchEnd
    \/ TouchElsewhere
    \/ LiftElsewhere
    \/ TouchOrientation
    \/ TouchFrame

SpecTouch == InitTouch /\ [][NextTouch]_vars

(***************************************************************************)
(* Claims about the touch screen, checked under SpecTouch.                 *)
(***************************************************************************)
\* The entry of App.touch.activeTouches of the finger, if it has one.
HasEntry(finger) == finger.identifier \in DOMAIN app.touch.activeTouches

EntryOf(finger) == app.touch.activeTouches[finger.identifier]

\* The target of the spring of the interior point named.
TargetOf(point) ==
    IF point = "p1" THEN ib.springP1.spring.target ELSE ib.springP2.spring.target

\* The finger is on the canvas with an entry for an interior point.
HoldsInterior(finger) ==
    /\ finger.onCanvas
    /\ HasEntry(finger)
    /\ EntryOf(finger).point \in { "p1", "p2" }

\* C25: while a touch is assigned to the interior point p1 or p2, the target
\* of that point's spring is the most recent position reported for that
\* touch, whatever touchmove, deviceorientation and animation-frame events
\* come in between, in either control mode.
C25_TargetFollowsTouch ==
    \A k \in 1..Len(app.fingers) :
        HoldsInterior(app.fingers[k])
            => TargetOf(EntryOf(app.fingers[k]).point)
                   = Vector2D(app.fingers[k].clientX, app.fingers[k].clientY)

\* A touchmove puts the target of the moved touch's interior point at the
\* position that it reports.
TouchMoveSetsTarget ==
    last.op = "handleTouchMove"
        => \A k \in 1..Len(last.arg) :
               HoldsInterior([last.arg[k] EXCEPT !.onCanvas = TRUE])
                   => TargetOf(EntryOf(last.arg[k]).point)
                          = Vector2D(last.arg[k].clientX, last.arg[k].clientY)

\* In gyro mode, a reading of the sensor arrives while a finger that has
\* moved holds p1, and takes the target of p1 away from the finger.
SensorTakesTarget ==
    /\ last.op = "handleDeviceOrientation"
    /\ app.controlMode = "gyro"
    /\ \E k \in 1..Len(app.fingers) :
         /\ HoldsInterior(app.fingers[k])
         /\ EntryOf(app.fingers[k]).point = "p1"
         /\ last.pre.springP1.spring.target
                = Vector2D(app.fingers[k].clientX, app.fingers[k].clientY)
         /\ ib.springP1.spring.target
                # Vector2D(app.fingers[k].clientX, app.fingers[k].clientY)

\* C26: no control point, p0 to p3, is assigned to more than one entry of
\* App.touch.activeTouches, after any sequence of touch events, several
\* touches starting in one event included.
C26_OnePointPerTouch ==
    \A i, j \in DOMAIN app.touch.activeTouches :
        i # j => app.touch.activeTouches[i].point # app.touch.activeTouches[j].point

\* Two touches that started in one event on the same point hold different
\* points.
C26_Witness ==
    /\ last.op = "handleTouchStart"
    /\ Len(last.arg) = 2
    /\ HasEntry(last.arg[1])
    /\ HasEntry(last.arg[2])
    /\ distanceTo(Vector2D(last.arg[2].clientX, last.arg[2].clientY),
                  SpringPoint_position(ib.springP1)) < Num(TouchHitRadius)

\* Every key of activeTouches is the identifier of a finger that is down on
\* the canvas.
EntriesAreDown ==
    \A i \in DOMAIN app.touch.activeTouches :
        \E k \in 1..Len(app.fingers) :
            app.fingers[k].identifier = i /\ app.fingers[k].onCanvas

\* isDragging is true exactly when activeTouches has an entry.
DraggingIffEntries ==
    app.touch.isDragging <=> DOMAIN app.touch.activeTouches # {}

\* Both interior springs aim at their base positions.
TargetsAtBase ==
    /\ ib.springP1.spring.target = ib.springP1.basePosition
    /\ ib.springP2.spring.target = ib.springP2.basePosition

\* C27: activeTouches holds only identifiers of touches that are down and
\* isDragging is true exactly when it is not empty; and once the last finger
\* is lifted, activeTouches is empty, touch.active and isDragging are false,
\* and in touch mode both spring targets are back at their base positions.
C27_TouchStateFollowsFingers ==
    /\ EntriesAreDown
    /\ DraggingIffEntries
    /\ (last.op \in { "handleTouchEnd", "elsewhere" } /\ app.fingers = <<>>)
          => /\ DOMAIN app.touch.activeTouches = {}
             /\ ~app.touch.active
             /\ ~app.touch.isDragging
             /\ app.controlMode = "touch" => TargetsAtBase

\* The last finger to leave the screen had come down outside the canvas,
\* and the canvas saw its own finger lift before: no finger is down and the
\* page still has touch.active set.
LeftActive ==
    /\ last.op = "elsewhere"
    /\ app.fingers = <<>>
    /\ app.touch.active

\* With every finger on the canvas, lifting the last one clears the touch
\* state and, in touch mode, puts the targets back.
LastCanvasFingerClears ==
    (last.op = "handleTouchEnd" /\ app.fingers = <<>>)
        => /\ DOMAIN app.touch.activeTouches = {}
           /\ ~app.touch.active
           /\ ~app.touch.isDragging
           /\ app.controlMode = "touch" => TargetsAtBase

(***************************************************************************)
(* The control mode of the mobile page and its sensor, checked under       *)
(* SpecApp.                                                                *)
(***************************************************************************)
\* C28: App.controlMode is "gyro" exactly when App.gyro.enabled is true and
\* the deviceorientation listener is registered, in every state from the
\* initial one on, under every interleaving of the permission buttons, the
\* mode toggle, the result of requestPermission and the calibration timer;
\* and a permission result that arrives after the user switched to touch
\* mode does not switch the mode back.
C28_ModeIffSensorEnabled ==
    app.platform = "mobile"
        => /\ app.controlMode = "gyro" <=> (app.gyro.enabled /\ app.listening)
           /\ (last.op = "requestGyroscopePermission"
                  /\ last.preApp.controlMode = "touch")
                 => app.controlMode = "touch"

\* The page waits for the user's answer to the permission overlay: the mode
\* is "gyro" as declared, and the sensor is off.
GyroModeWithoutSensor ==
    /\ app.platform = "mobile"
    /\ app.overlay
    /\ app.controlMode = "gyro"
    /\ ~app.gyro.enabled
    /\ ~app.listening

\* The user asked for the permission, chose touch mode before the answer,
\* and the grant that arrived then put the page in gyro mode.
LateGrantSwitchesBack ==
    /\ app.platform = "mobile"
    /\ last.op = "requestGyroscopePermission"
    /\ last.arg = "granted"
    /\ last.preApp.controlMode = "touch"
    /\ app.controlMode = "gyro"
    /\ app.gyro.enabled

\* The sensor is enabled exactly when the listener is registered, and only
\* in gyro mode.
SensorOnlyInGyroMode ==
    app.platform = "mobile"
        => /\ app.gyro.enabled <=> app.listening
           /\ app.gyro.enabled => app.controlMode = "gyro"

(***************************************************************************)
(* Sequences of resize calls, with the sizes that a host can report: a     *)
(* hidden container has a clientWidth and clientHeight of 0.               *)
(***************************************************************************)
\* The longest sequence of resize calls explored.
MaxResizes == 3

HostSizes ==
    { [width |-> Num(800), height |-> Num(600)],
      [width |-> Num(400), height |-> Num(300)],
      [width |-> Num(1000), height |-> Num(600)],
      [width |-> 0, height |-> Num(600)],
      [width |-> Num(400), height |-> 0] }

InitResize ==
    /\ clock = StartTime
    /\ \E config \in BezierConfigs : ib = InteractiveBezier_new(config, clock)
    /\ last = [op |-> "new", calls |-> 0]
    /\ steps = 0
    /\ SpringUnused
    /\ ValuesUnused

\* handleResize of either page calls resize with the size reported.  last
\* keeps the object before the call, and the one before the call before.
Resize ==
    /\ steps < MaxResizes
    /\ \E size \in HostSizes :
         /\ ib' = InteractiveBezier_resize(ib, size.width, size.height)
         /\ last' = [op |-> "resize", arg |-> size, pre |-> ib,
                     calls |-> steps + 1,
                     before |-> IF steps = 0 THEN ib ELSE last.pre]
    /\ steps' = steps + 1
    /\ UNCHANGED <<clock, spring, app, canvas, valueVars>>

NextResize == Resize

SpecResize == InitResize /\ [][NextResize]_vars

\* The coordinates that resize assigns.
Placed(b) ==
    << b.p0.x, b.p0.y, b.p3.x, b.p3.y,
       b.springP1.basePosition.x, b.springP1.basePosition.y,
       b.springP2.basePosition.x, b.springP2.basePosition.y >>

AllFinite(b) == \A k \in 1..8 : Finite(Placed(b)[k])

\* Equal up to the rounding of two quotients and two products.
Near(x, y) ==
    /\ Finite(x)
    /\ Finite(y)
    /\ Abs(x - y) <= Abs(y) \div (Scale \div 8) + 8

SamePlaces(b, c) == \A k \in 1..8 : Near(Placed(b)[k], Placed(c)[k])

\* The last two calls were resize(w2, h2) and then resize to the size that
\* the object had before them.
Reversed ==
    /\ last.calls >= 2
    /\ last.arg = [width |-> last.before.width, height |-> last.before.height]

\* C29: resize is reversible and composable for every pair of sizes that
\* the host can report, zero width or height included: resize(w2, h2) and
\* then resize(w1, h1) on an object of size (w1, h1) restores p0, p3 and both
\* base positions; resize(w2, h2) and then resize(w3, h3) leaves what
\* resize(w3, h3) alone leaves; and every coordinate stays finite.
C29_ResizeReversesAndComposes ==
    /\ last.op = "resize" => AllFinite(ib)
    /\ Reversed => SamePlaces(ib, last.before)
    /\ last.calls >= 2
          => SamePlaces(ib, InteractiveBezier_resize(last.before, last.arg.width,
                                                     last.arg.height))

\* No size of the object before the last two calls, nor of the calls, is 0.
VisibleThroughout ==
    /\ last.calls >= 2
    /\ AllFinite(last.before)
    /\ last.before.width # 0
    /\ last.before.height # 0
    /\ last.pre.width # 0
    /\ last.pre.height # 0
    /\ last.arg.width # 0
    /\ last.arg.height # 0

\* Between sizes that are not 0, resize reverses and composes, up to
\* rounding.
VisibleResizeReversesAndComposes ==
    VisibleThroughout
        => /\ AllFinite(ib)
           /\ Reversed => SamePlaces(ib, last.before)
           /\ SamePlaces(ib, InteractiveBezier_resize(last.before, last.arg.width,
                                                      last.arg.height))

\* A container that was hidden is shown again at its old size: the x
\* coordinates, 0 since the resize to a width of 0, are 0 * Infinity.
HiddenAndShown ==
    /\ Reversed
    /\ last.pre.width = 0
    /\ last.arg.width # 0
    /\ AllFinite(last.before)
    /\ ib.p0.x = NaN
    /\ ib.p3.x = NaN
    /\ ib.springP1.basePosition.x = NaN
    /\ ib.springP2.basePosition.x = NaN

(***************************************************************************)
(* Utils.debounce (js/utils.js), as both pages use it for the resize       *)
(* listener.  The variable app holds the closure and what the browser      *)
(* keeps for it: timeout, the variable of the closure, undefined or the    *)
(* one-element tuple of the identifier last returned; timers, the          *)
(* timeouts set and neither fired nor cleared, each [id, args, due];       *)
(* nextId, the identifier that the next setTimeout returns; invoked, the   *)
(* calls of func so far, each [args, at].  A timer fires at its due time   *)
(* or later, whenever the event loop gets to it.                           *)
(***************************************************************************)
\* Utils.debounce(handleResize, 100)
ResizeWait == 100

\* The longest sequence of calls, timers and waits explored.
MaxDebounceEvents == 6

\* What the calls pass: the resize events.
Arguments == { <<"resize1">>, <<"resize2">> }

\* How long the page waits between two events, in milliseconds.
Waits == { Num(40), Num(100) }

\* Utils.debounce(func, wait): the closure, with timeout undefined.
Utils_debounce ==
    [timeout |-> Undefined, timers |-> {}, nextId |-> 1, invoked |-> <<>>]

\* A variant of clearTimeout that clears nothing.
ClearTimeout_Keeps(d, id) == d

\* clearTimeout(id): no effect unless a timer with that identifier is set.
ClearTimeout(d, id) ==
    [d EXCEPT !.timers = { t \in @ : <<t.id>> # id }]

\* setTimeout(() => func(...args), wait), assigned to timeout
SetTimeout(d, args, wait, now) ==
    [d EXCEPT !.timers  = @ \cup { [id |-> d.nextId, args |-> args,
                                    due |-> now + wait] },
              !.timeout = <<d.nextId>>,
              !.nextId  = @ + 1]

\* The function that debounce returns, called with args at the time now.
Utils_debounced(d, args, wait, now) ==
    SetTimeout(ClearTimeout(d, d.timeout), args, wait, now)

\* The callback of the timer t: func(...args).
TimerCallback(d, t, now) ==
    [d EXCEPT !.timers  = @ \ {t},
              !.invoked = Append(@, [args |-> t.args, at |-> now])]

InitDebounce ==
    /\ clock = StartTime
    /\ app = Utils_debounce
    /\ last = [op |-> "debounce", burst |-> <<>>, bursts |-> 0]
    /\ steps = 0
    /\ ib = Unused
    /\ canvas = Unused
    /\ spring = Unused
    /\ ValuesUnused

\* The event that the debounced function listens to fires.  last.burst holds
\* the calls since func was last invoked, each [args, at], and last.bursts
\* counts the bursts begun.
DebouncedCall ==
    /\ steps < MaxDebounceEvents
    /\ \E args \in Arguments :
         /\ app' = Utils_debounced(app, args, Num(ResizeWait), clock)
         /\ last' = [op |-> "call", arg |-> args, pre |-> app,
                     burst |-> Append(last.burst, [args |-> args, at |-> clock]),
                     bursts |-> IF last.burst = <<>> THEN last.bursts + 1
                                ELSE last.bursts]
    /\ steps' = steps + 1
    /\ UNCHANGED <<clock, ib, canvas, spring, valueVars>>

\* The event loop runs the callback of a timer that is due.
TimerFires ==
    /\ steps < MaxDebounceEvents
    /\ \E t \in app.timers :
         /\ t.due <= clock
         /\ app' = TimerCallback(app, t, clock)
         /\ last' = [op |-> "timer", arg |-> t, pre |-> app,
                     burst |-> <<>>, bursts |-> last.bursts,
                     ended |-> last.burst]
    /\ steps' = steps + 1
    /\ UNCHANGED <<clock, ib, canvas, spring, valueVars>>

\* Time passes without an event.
TimePasses ==
    /\ steps < MaxDebounceEvents
    /\ \E wait \in Waits : clock' = clock + wait
    /\ last' = [last EXCEPT !.op = "wait"]
    /\ steps' = steps + 1
    /\ UNCHANGED <<app, ib, canvas, spring, valueVars>>

NextDebounce ==
    \/ DebouncedCall
    \/ TimerFires
    \/ TimePasses

SpecDebounce == InitDebounce /\ [][NextDebounce]_vars

\* C30: at most one timer of a debounced function is pending at any time;
\* a call never invokes func synchronously; and of a burst of calls, each
\* arriving before the timer of the one before fires, func is invoked
\* exactly once, after the last call and no sooner than wait after it, with
\* the arguments of that call.
C30_DebounceInvokesOncePerBurst ==
    /\ Cardinality(app.timers) <= 1
    /\ last.op = "call" => app.invoked = last.pre.invoked
    /\ Len(app.invoked) + Cardinality(app.timers) = last.bursts
    /\ (app.timers = {}) = (last.burst = <<>>)
    /\ \A t \in app.timers :
          /\ t.args = last.burst[Len(last.burst)].args
          /\ t.due = last.burst[Len(last.burst)].at + Num(ResizeWait)
    /\ last.op = "timer"
          => LET call == last.ended[Len(last.ended)]
                 done == app.invoked[Len(app.invoked)]
             IN  /\ Len(app.invoked) = Len(last.pre.invoked) + 1
                 /\ done.args = call.args
                 /\ done.at >= call.at + Num(ResizeWait)

\* func has just been invoked for a burst of three calls that did not all
\* pass the same arguments.
C30_Witness ==
    /\ last.op = "timer"
    /\ Len(last.ended) = 3
    /\ last.ended[1].args # last.ended[3].args
    /\ last.ended[3].at > last.ended[1].at
    /\ Len(app.invoked) = 1

=============================================================================
